---------------------------- MODULE Spec2Model ----------------------------
(***************************************************************************)
(* A model of BOL-CD: the hash-chained audit store (audit/store.py), the   *)
(* alert decision engine (condense/engine.py, condense/policy.py), the     *)
(* ingest path (api/v1/ingest.py) and the late-replay reconciler           *)
(* (jobs/reconciler.py).                                                   *)
(*                                                                         *)
(* Modelling conventions                                                   *)
(*  - datetimes are integer seconds on one time line;                      *)
(*  - SHA-256 over the canonical JSON of {ts, actor, action, diff} is an   *)
(*    injective encoding of those fields into the positive integers;       *)
(*  - a dict key that is absent is the value 0 (hashes are >= 1, so 0 is   *)
(*    also Python's falsy None for a hash);                                *)
(*  - floats are exact rationals <<numerator, denominator>>.               *)
(***************************************************************************)
EXTENDS Integers, Sequences, FiniteSets, TLC

VARIABLES
    \* ---- audit store (audit/store.py)
    auditKind,      \* "jsonl" | "sqlite": which store class is in use
    auditLog,       \* the stored lines / rows in insertion (id) order
    writes,         \* number of append() calls that returned
    tamper,         \* what was done to the stored log outside append()
    vres,           \* result of the last verify_chain() call, or NoResult
    thr,            \* per thread: position inside SQLiteAuditStore.append
    \* ---- condense database (models/condense.py), tables in id order
    alerts,         \* table alerts
    decisions,      \* table decisions
    suppressed,     \* table suppressed
    late_replay,    \* table late_replay
    validation_logs,\* table validation_logs
    now,            \* the wall clock, seconds
    policy,         \* what policy.py read from the environment at import
    session,        \* objects added to the caller's Session, not committed
    last,           \* arguments and return value of the last decide_and_record
    wk,             \* per worker: position inside a concurrent decide_and_record
    rc,             \* per reconciler: position inside run_once
    \* ---- graph learning (core/)
    tr,             \* transitive_reduction: its argument and its locals
    lg,             \* learn_graph_from_events: arguments, locals, result
    \* ---- retention (retention/policy.py)
    rt,             \* the storage tree, the manager's policies, the last call
    \* ---- calls of functions without state
    fn              \* the last call: the function, its arguments, its result

auditVars == <<auditKind, auditLog, writes, tamper, vres, thr>>

dbVars == <<alerts, decisions, suppressed, late_replay, validation_logs, now,
            policy, session, last, wk, rc>>

extVars == <<tr, lg, rt, fn>>

vars == <<auditKind, auditLog, writes, tamper, vres, thr,
          alerts, decisions, suppressed, late_replay, validation_logs, now,
          policy, session, last, wk, rc, tr, lg, rt, fn>>

-----------------------------------------------------------------------------
(* Bounds of the model *)

MaxEntries == 3        \* appended audit entries
NumThreads == 2        \* threads appending concurrently

-----------------------------------------------------------------------------
(* Audit store: data *)

NoPrev == 0            \* the diff has no "_prev" key / prev_hash is None

Actors    == <<"alice", "bob", "mallory">>
Actions   == <<"update", "delete">>
Bodies    == <<"b0", "b1">>
Stamps    == <<1, 2, 3>>

\* what callers pass to append(); the last value of each list above is one
\* only a tampered entry carries
AppendActors  == {"alice", "bob"}
AppendActions == {"update"}
AppendBodies  == {"b0"}
AppendStamps  == {1, 2}

Threads == 1..NumThreads

IndexOf(seq, x) == CHOOSE i \in 1..Len(seq) : seq[i] = x

\* number of distinct {ts, actor, action, diff-without-_prev} payloads
PayloadCodes == Len(Stamps) * Len(Actors) * Len(Actions) * Len(Bodies)

PayloadCode(ts, actor, action, body) ==
    (((IndexOf(Stamps, ts) - 1) * Len(Actors) + (IndexOf(Actors, actor) - 1))
        * Len(Actions) + (IndexOf(Actions, action) - 1))
        * Len(Bodies) + (IndexOf(Bodies, body) - 1)

\* _compute_hash: sha256(json.dumps(payload, sort_keys=True)), injective in
\* (ts, actor, action, diff), diff._prev included
compute_hash(base) ==
    1 + PayloadCode(base.ts, base.actor, base.action, base.diff.body)
      + PayloadCodes * base.diff.prev

LastHash(log) == IF Len(log) = 0 THEN NoPrev ELSE log[Len(log)].hash

\* _with_prev_hash_in_diff, given the hash read from the last stored entry:
\* the pointer is added only when the caller's diff has no "_prev" key
with_prev_hash_in_diff(diff, prev_hash) ==
    IF prev_hash # NoPrev /\ diff.prev = NoPrev
    THEN [diff EXCEPT !.prev = prev_hash]
    ELSE diff

\* the entry append() builds from its arguments and the hash it read
MakeEntry(ts, actor, action, diff, prev_hash) ==
    LET base == [ts |-> ts, actor |-> actor, action |-> action,
                 diff |-> with_prev_hash_in_diff(diff, prev_hash)]
    IN  [ts |-> base.ts, actor |-> base.actor, action |-> base.action,
         diff |-> base.diff, hash |-> compute_hash(base)]

BasePayload(e) == [ts |-> e.ts, actor |-> e.actor, action |-> e.action, diff |-> e.diff]

NoResult == [called |-> FALSE, limit |-> 0, res |-> [ok |-> TRUE]]

\* the hash a thread holds before it has read one
NoEntry == [hash |-> NoPrev]

\* the loop of verify_chain over entries[idx..], prev_hash carried along
RECURSIVE VerifyScan(_, _, _)
VerifyScan(entries, idx, prev_hash) ==
    IF idx > Len(entries)
    THEN [ok |-> TRUE, entries |-> Len(entries),
          failure_index |-> -1, reason |-> "", last_hash |-> prev_hash]
    ELSE LET e == entries[idx] IN
         IF compute_hash(BasePayload(e)) # e.hash
         THEN [ok |-> FALSE, entries |-> idx,
               failure_index |-> idx - 1, reason |-> "hash_mismatch",
               last_hash |-> NoPrev]
         ELSE IF prev_hash # NoPrev /\ e.diff.prev # prev_hash
         THEN [ok |-> FALSE, entries |-> idx,
               failure_index |-> idx - 1, reason |-> "prev_link_mismatch",
               last_hash |-> NoPrev]
         ELSE VerifyScan(entries, idx + 1, e.hash)

\* entries[-limit:] when a positive limit is given (limit 0 stands for None)
LastN(entries, limit) ==
    IF limit > 0 /\ limit < Len(entries)
    THEN SubSeq(entries, Len(entries) - limit + 1, Len(entries))
    ELSE entries

JSONL_verify_chain(lines, limit) == VerifyScan(LastN(lines, limit), 1, NoPrev)

SQLite_verify_chain(rows, limit) == VerifyScan(LastN(rows, limit), 1, NoPrev)

verify_chain(kind, log, limit) ==
    IF kind = "jsonl" THEN JSONL_verify_chain(log, limit)
    ELSE SQLite_verify_chain(log, limit)

RECURSIVE Reverse(_)
Reverse(seq) == IF seq = <<>> THEN <<>> ELSE Append(Reverse(Tail(seq)), Head(seq))

\* lines[-limit:] of the lines read, oldest first; [] when limit <= 0
JSONL_tail(lines, limit) ==
    IF limit <= 0 THEN <<>>
    ELSE IF limit < Len(lines)
    THEN SubSeq(lines, Len(lines) - limit + 1, Len(lines))
    ELSE lines

\* SELECT ... ORDER BY id DESC LIMIT max(0, limit)
SQLite_tail(rows, limit) ==
    LET desc == Reverse(rows)
        n == IF limit < 0 THEN 0 ELSE limit
    IN  IF n < Len(desc) THEN SubSeq(desc, 1, n) ELSE desc

tail(kind, log, limit) ==
    IF kind = "jsonl" THEN JSONL_tail(log, limit) ELSE SQLite_tail(log, limit)

-----------------------------------------------------------------------------
(* Condense database: data (models/condense.py) and policy (policy.py)     *)

MaxAlerts == 3         \* rows of table alerts
MaxPending == 1        \* objects added to a Session and not yet committed

\* policy.py, defaults of the environment variables.  q-values are counted
\* in hundredths, lifts in tenths, scores in hundredths.
ALPHA    == 1          \* 0.01
S_MIN    == 20
LIFT_MIN == 15         \* 1.5
NEAR_SEC == 3600
FALSE_SUPPRESSION_THRESHOLD == 30      \* 0.3

HourSec == 3600        \* timedelta(hours=1)
WeekSec == 604800      \* timedelta(days=7)

Rules    == {"R-001", "R-002"}
Entities == {"h1", "h2"}

\* alert.signature values; "" is None
Signatures == {"", "failed_login", "Ransomware_Alert"}

\* str.lower() on the signature values
lower(sig) == IF sig = "Ransomware_Alert" THEN "ransomware_alert" ELSE sig

critical_signatures ==
    {"privilege_escalation", "data_exfiltration", "malware_detected",
     "unauthorized_access", "sql_injection", "command_injection",
     "ransomware", "backdoor", "rootkit"}

\* crit in text, for the lower-cased signature values
IsSubstring(crit, text) == text = "ransomware_alert" /\ crit = "ransomware"

\* a rational number n/d, d > 0
Rat(n, d) == <<n, d>>
One == Rat(1, 1)
Zero == Rat(0, 1)
NoScore == Rat(0, 0)   \* the key is absent from the reason dict
Less(x, y) == x[1] * y[2] < y[1] * x[2]

\* the tables start empty
NoRows == <<>>

\* an edge_meta dict; NoEdge is None or {} ("not edge_meta")
NoEdge == [edge_id |-> <<>>, q_value |-> 100, support |-> 0, lift |-> 10]

EdgeMeta(rule_a, rule_b, q, support, lift) ==
    [edge_id |-> <<rule_a, rule_b>>, q_value |-> q, support |-> support,
     lift |-> lift]

\* a window test that forgets the lower end
within_near_window_no_lower(alert_ts, reference_ts) ==
    alert_ts - reference_ts <= NEAR_SEC

within_near_window(alert_ts, reference_ts) ==
    LET delta_seconds == alert_ts - reference_ts
    IN  0 <= delta_seconds /\ delta_seconds <= NEAR_SEC

strong_edge(edge_meta) ==
    /\ edge_meta.q_value <= ALPHA
    /\ edge_meta.support >= S_MIN
    /\ edge_meta.lift >= LIFT_MIN

HighSeverities == {"high", "critical"}

\* a guard that protects only severity "critical"
should_always_pass_critical_only(pol, alert) ==
    IF pol.HIGH_SEVERITY_PROTECTION /\ alert.severity = "critical"
    THEN <<TRUE, "high_severity_protection">>
    ELSE IF alert.rule_id \in pol.ALLOWLIST
    THEN <<TRUE, "allowlist">>
    ELSE IF alert.signature # ""
            /\ \E crit \in critical_signatures :
                   IsSubstring(crit, lower(alert.signature))
    THEN <<TRUE, "critical_signature">>
    ELSE <<FALSE, "">>

\* should_always_pass: <<should_pass, reason>>
should_always_pass(pol, alert) ==
    IF pol.HIGH_SEVERITY_PROTECTION /\ alert.severity \in HighSeverities
    THEN <<TRUE, "high_severity_protection">>
    ELSE IF alert.rule_id \in pol.ALLOWLIST
    THEN <<TRUE, "allowlist">>
    ELSE IF alert.signature # ""
            /\ \E crit \in critical_signatures :
                   IsSubstring(crit, lower(alert.signature))
    THEN <<TRUE, "critical_signature">>
    ELSE <<FALSE, "">>

\* severity_weights.get(alert.severity, 0.5), in tenths
severity_weight(severity) ==
    CASE severity = "critical" -> 1
      [] severity = "high"     -> 3
      [] severity = "medium"   -> 7
      [] severity = "low"      -> 10
      [] severity = "info"     -> 10
      [] OTHER                 -> 5

Min(a, b) == IF a <= b THEN a ELSE b

\* calculate_suppression_confidence(alert, edge_meta, validation_score)
calculate_suppression_confidence(alert, edge_meta, validation_score) ==
    LET sw   == severity_weight(alert.severity)
        qc   == 100 - Min(edge_meta.q_value, 100)
        sc   == Min(edge_meta.support, S_MIN * 2)
        lc   == Min(edge_meta.lift, LIFT_MIN * 2)
        \* (q_confidence + support_confidence + lift_confidence) / 3
        en   == qc * (S_MIN * 2) * (LIFT_MIN * 2) + sc * 100 * (LIFT_MIN * 2)
                    + lc * 100 * (S_MIN * 2)
        ed   == 3 * 100 * (S_MIN * 2) * (LIFT_MIN * 2)
        bn   == IF edge_meta = NoEdge THEN sw ELSE sw * en
        bd   == IF edge_meta = NoEdge THEN 10 ELSE 10 * ed
        vn   == validation_score[1]
        vd   == validation_score[2]
        n    == IF vn > 0 THEN bn * (vd - vn) ELSE bn
        d    == IF vn > 0 THEN bd * vd ELSE bd
    IN  IF n < 0 THEN Zero ELSE IF n > d THEN One ELSE Rat(n, d)

\* FalseSuppressionValidator.validate_by_severity, in tenths
validate_by_severity(alert) ==
    CASE alert.severity = "critical" -> 9
      [] alert.severity = "high"     -> 7
      [] alert.severity = "medium"   -> 3
      [] alert.severity = "low"      -> 1
      [] alert.severity = "info"     -> 0
      [] OTHER                       -> 5

\* the score _validate_false_suppression computes from the alerts table
validation_final_score(alert_rows, alert, t) ==
    LET severity_score == validate_by_severity(alert)
        recent_high == Cardinality({i \in DOMAIN alert_rows :
                          /\ alert_rows[i].entity_id = alert.entity_id
                          /\ alert_rows[i].severity \in HighSeverities
                          /\ alert_rows[i].ts >= t - HourSec
                          /\ alert_rows[i].id # alert.id})
        \* min(recent_high * 0.2, 1.0), in tenths
        correlation_score == Min(recent_high * 2, 10)
        same_pattern_count == Cardinality({i \in DOMAIN alert_rows :
                          /\ alert_rows[i].entity_id = alert.entity_id
                          /\ alert_rows[i].rule_id = alert.rule_id
                          /\ alert_rows[i].ts >= t - WeekSec})
    IN  Rat((4 * severity_score + 3 * correlation_score) * (same_pattern_count + 1) + 30,
            100 * (same_pattern_count + 1))

\* a test that lets every validation score through
never_over_threshold(score) == FALSE

\* validation_score > FALSE_SUPPRESSION_THRESHOLD
OverThreshold(score) == Less(Rat(FALSE_SUPPRESSION_THRESHOLD, 100), score)

-----------------------------------------------------------------------------
(* Decision engine (condense/engine.py)                                    *)

\* the loop over ctx["recent_A"].items(), from position i on: the edge_meta
\* of the first entry that matches, or NoEdge
RECURSIVE FindEdge(_, _, _)
FindEdge(alert, ctx, i) ==
    IF i > Len(ctx.recent_A) THEN NoEdge
    ELSE LET ent == ctx.recent_A[i].ent
             rule_a == ctx.recent_A[i].rule
             ts_a == ctx.recent_A[i].ts
             edge_meta == ctx.edge_meta[<<rule_a, alert.rule_id>>]
         IN  IF ent # alert.entity_id THEN FindEdge(alert, ctx, i + 1)
             ELSE IF edge_meta = NoEdge THEN FindEdge(alert, ctx, i + 1)
             ELSE IF within_near_window(alert.ts, ts_a) /\ strong_edge(edge_meta)
             THEN edge_meta
             ELSE FindEdge(alert, ctx, i + 1)

\* what a call returns: {"decision": ..., "reason": {...}}; validated says
\* whether _validate_false_suppression ran
Outcome(decision, why, score, confidence, edge, validated) ==
    [decision |-> decision, why |-> why, validation_score |-> score,
     confidence |-> confidence, edge |-> edge, validated |-> validated]

NoOutcome == Outcome("", "", NoScore, NoScore, NoEdge, FALSE)

\* the branch decide_and_record takes for alert under ctx, the alerts table
\* being alert_rows and the clock t
decide(pol, alert_rows, t, alert, ctx) ==
    LET pass == should_always_pass(pol, alert)
        suppress_edge == FindEdge(alert, ctx, 1)
        validation_score == validation_final_score(alert_rows, alert, t)
        confidence == calculate_suppression_confidence(alert, suppress_edge,
                                                       validation_score)
    IN  IF pass[1]
        THEN Outcome("deliver", pass[2], NoScore, NoScore, NoEdge, FALSE)
        ELSE IF pol.ROOT_PASS /\ ctx.in_deg[alert.rule_id] = 0
        THEN Outcome("deliver", "root_pass", NoScore, NoScore, NoEdge, FALSE)
        ELSE IF suppress_edge = NoEdge
        THEN Outcome("deliver", "no_edge", NoScore, NoScore, NoEdge, FALSE)
        ELSE IF OverThreshold(validation_score)
        THEN Outcome("deliver", "false_suppression_risk", validation_score,
                     confidence, suppress_edge, TRUE)
        ELSE Outcome("suppress", "edge", validation_score, confidence,
                     suppress_edge, TRUE)

\* db.query(DecisionRecord).filter(alert_id == alert.id).first() is not None
HasDecision(rows, alert_id) == \E i \in DOMAIN rows : rows[i].alert_id = alert_id

DecisionOf(rows, alert_id) ==
    rows[CHOOSE i \in DOMAIN rows : rows[i].alert_id = alert_id]

\* DecisionRecord(alert_id, decision, confidence, reason); created_at default
NewDecisionRecord(alert, out, t) ==
    [alert_id |-> alert.id, decision |-> out.decision,
     confidence |-> IF out.confidence = NoScore THEN One ELSE out.confidence,
     why |-> out.why, validation_score |-> out.validation_score,
     edge_id |-> out.edge.edge_id, created_at |-> t]

\* Suppressed(alert_id, edge_id, false_suppression_score, meta={"q": ...});
\* inserted_ts and status take their column defaults
NewSuppressed(alert, out, t) ==
    [alert_id |-> alert.id, edge_id |-> out.edge.edge_id, inserted_ts |-> t,
     status |-> "pending", false_suppression_score |-> out.validation_score,
     meta |-> [q |-> out.edge.q_value]]

\* ValidationLog(alert_id, method="combined", score); validation_ts is set
\* when the row is inserted
NewValidationLog(alert, out) == [alert_id |-> alert.id, score |-> out.validation_score]

InsertLogs(table, pending, t) ==
    table \o [i \in 1..Len(pending) |->
                [alert_id |-> pending[i].alert_id, score |-> pending[i].score,
                 validation_ts |-> t]]

\* what the Session holds after _validate_false_suppression's db.add()
PendingAfter(pending, alert, out) ==
    IF out.validated THEN Append(pending, NewValidationLog(alert, out)) ELSE pending

\* _deliver / _suppress: nothing is written when a record exists; else the
\* new rows and everything pending in the Session are committed together
RecordWrites(alert, out, pending) ==
    IF HasDecision(decisions, alert.id)
    THEN [decisions |-> decisions, suppressed |-> suppressed,
          validation_logs |-> validation_logs,
          pending |-> PendingAfter(pending, alert, out)]
    ELSE [decisions |-> Append(decisions, NewDecisionRecord(alert, out, now)),
          suppressed |-> IF out.decision = "suppress"
                         THEN Append(suppressed, NewSuppressed(alert, out, now))
                         ELSE suppressed,
          validation_logs |-> InsertLogs(validation_logs,
                                         PendingAfter(pending, alert, out), now),
          pending |-> <<>>]

\* the recent alert r the specification asks for: same entity, a strong edge
\* r.rule -> a.rule in the context, and a.ts - r.ts in [0, NEAR_SEC]
Justifies(alert, ctx, r) ==
    LET e == ctx.edge_meta[<<r.rule, alert.rule_id>>]
    IN  /\ r.ent = alert.entity_id
        /\ e # NoEdge
        /\ e.q_value <= ALPHA /\ e.support >= S_MIN /\ e.lift >= LIFT_MIN
        /\ alert.ts - r.ts >= 0
        /\ alert.ts - r.ts <= NEAR_SEC

NoCall == [called |-> FALSE]

\* the context of a graph with no edge: edge_meta and in_deg are empty dicts
\* (a missing in_deg is read as 0)
EmptyGraph(ctx) ==
    /\ \A p \in DOMAIN ctx.edge_meta : ctx.edge_meta[p] = NoEdge
    /\ \A r \in DOMAIN ctx.in_deg : ctx.in_deg[r] = 0

\* what is remembered of a call: the alert, what the context offered, whether
\* a record existed before, and the returned value
CallInfo(alert, ctx, out) ==
    [called |-> TRUE, alert |-> alert,
     existed |-> HasDecision(decisions, alert.id),
     justified |-> \E i \in DOMAIN ctx.recent_A : Justifies(alert, ctx, ctx.recent_A[i]),
     root |-> ctx.in_deg[alert.rule_id] = 0,
     empty_graph |-> EmptyGraph(ctx),
     sup_before |-> Len(suppressed),
     fault |-> "none", raised |-> FALSE,
     ret |-> [decision |-> out.decision, why |-> out.why]]

\* decide_and_record(db, alert, ctx) on the caller's Session
decide_and_record(alert, ctx) ==
    LET out == decide(policy, alerts, now, alert, ctx)
        w == RecordWrites(alert, out, session)
    IN  /\ Len(PendingAfter(session, alert, out)) <= MaxPending
        /\ decisions' = w.decisions
        /\ suppressed' = w.suppressed
        /\ validation_logs' = w.validation_logs
        /\ session' = w.pending
        /\ last' = CallInfo(alert, ctx, out)
        /\ UNCHANGED <<alerts, late_replay, now, policy, wk, rc, auditVars, extVars>>

\* the statement of decide_and_record at which a failure of the database
\* raises: the first query of _validate_false_suppression ("validator"), or
\* the query for an existing record in _deliver / _suppress ("store")
Faults == {"validator", "store"}

\* decide_and_record(db, alert, ctx) when that statement raises: nothing
\* catches the exception, so the call ends there and returns nothing
decide_and_record_failing(alert, ctx, fault) ==
    LET out == decide(policy, alerts, now, alert, ctx)
        added == IF fault = "store" THEN PendingAfter(session, alert, out)
                 ELSE session
    IN  /\ fault = "validator" => out.validated
        /\ Len(added) <= MaxPending
        /\ session' = added
        /\ last' = [CallInfo(alert, ctx, NoOutcome) EXCEPT
                        !.fault = fault, !.raised = TRUE]
        /\ UNCHANGED <<alerts, decisions, suppressed, validation_logs, late_replay,
                       now, policy, wk, rc, auditVars, extVars>>

-----------------------------------------------------------------------------
(* Ingest (api/v1/ingest.py)                                               *)

\* recent_a[key] = ts for one more recent alert: a key seen before keeps its
\* place in the dict and takes the new value
RECURSIVE PutRecent(_, _, _)
PutRecent(recent_a, r_alert, i) ==
    IF i > Len(recent_a)
    THEN Append(recent_a, [ent |-> r_alert.entity_id, rule |-> r_alert.rule_id,
                           ts |-> r_alert.ts])
    ELSE IF recent_a[i].ent = r_alert.entity_id /\ recent_a[i].rule = r_alert.rule_id
    THEN [recent_a EXCEPT ![i].ts = r_alert.ts]
    ELSE PutRecent(recent_a, r_alert, i + 1)

RECURSIVE RecentDict(_, _)
RecentDict(recent_alerts, n) ==
    IF n = 0 THEN <<>>
    ELSE PutRecent(RecentDict(recent_alerts, n - 1), recent_alerts[n], 1)

\* the mock edge and the mock DAG that build_decision_context hard-codes
MockEdge == EdgeMeta("R-001", "R-002", 1, 50, 25)

MockInDeg == [r \in Rules |-> IF r = "R-002" THEN 1 ELSE 0]

build_decision_context(alert_rows, alert) ==
    LET IsRecent(r) == /\ r.entity_id = alert.entity_id
                       /\ r.ts >= alert.ts - HourSec
                       /\ r.ts < alert.ts
                       /\ r.id # alert.id
        recent_alerts == SelectSeq(alert_rows, IsRecent)
        has_pair == /\ alert.rule_id = "R-002"
                    /\ \E i \in DOMAIN recent_alerts :
                           recent_alerts[i].rule_id = "R-001"
    IN  [in_deg |-> MockInDeg,
         recent_A |-> RecentDict(recent_alerts, Len(recent_alerts)),
         edge_meta |-> [p \in Rules \X Rules |->
                          IF has_pair /\ p = <<"R-001", "R-002">>
                          THEN MockEdge ELSE NoEdge]]

\* the Alert row made from the request body; ids are handed out in order
NewAlert(alert_data) ==
    [id |-> Len(alerts) + 1, ts |-> alert_data.ts,
     entity_id |-> alert_data.entity_id, rule_id |-> alert_data.rule_id,
     severity |-> alert_data.severity, signature |-> alert_data.signature]

AlertData(tss, ents, rules, sevs, sigs) ==
    [ts : tss, entity_id : ents, rule_id : rules, severity : sevs,
     signature : sigs]

\* POST /ingest?process=false: the alert is committed, nothing is decided
ingest_alert_unprocessed(alert_data, cap) ==
    /\ Len(alerts) < cap
    /\ alerts' = Append(alerts, NewAlert(alert_data))
    /\ UNCHANGED <<decisions, suppressed, late_replay, validation_logs, now,
                   policy, session, last, wk, rc, auditVars, extVars>>

\* POST /ingest (process=true): the alert is committed, then decided under
\* the context built from the alerts table, on the request's own Session,
\* which is closed when the request ends
ingest_alert(alert_data) ==
    LET alert == NewAlert(alert_data)
        rows == Append(alerts, alert)
        ctx == build_decision_context(rows, alert)
        out == decide(policy, rows, now, alert, ctx)
        w == RecordWrites(alert, out, <<>>)
    IN  /\ Len(alerts) < MaxAlerts
        /\ alerts' = rows
        /\ decisions' = w.decisions
        /\ suppressed' = w.suppressed
        /\ validation_logs' = w.validation_logs
        /\ last' = CallInfo(alert, ctx, out)
        /\ UNCHANGED <<late_replay, now, policy, session, wk, rc, auditVars, extVars>>

-----------------------------------------------------------------------------
(* Processes that are idle, and the database before the first request      *)

NumWorkers == 2        \* concurrent decide_and_record calls
NumReconcilers == 2    \* reconciler processes

Workers == 1..NumWorkers
Reconcilers == 1..NumReconcilers

IdleWorker == [pc |-> "idle", out |-> NoOutcome, alert_id |-> 0]

IdleReconciler == [pc |-> "idle", queue |-> <<>>, adds |-> <<>>, marks |-> {},
                   fired |-> {}]

\* policy.py with no environment variable set
DefaultPolicy == [HIGH_SEVERITY_PROTECTION |-> TRUE, ALLOWLIST |-> {},
                  ROOT_PASS |-> TRUE]

\* the environments the engine is run under
EnginePolicies ==
    [HIGH_SEVERITY_PROTECTION : BOOLEAN, ALLOWLIST : {{}, {"R-002"}},
     ROOT_PASS : BOOLEAN]

\* transitive_reduction has not been called
IdleTR ==
    [pc |-> "idle", edges |-> <<>>, keys |-> <<>>, ui |-> 0, todo |-> {}, adj |-> {}]

\* learn_graph_from_events has not been called
IdleLearn == [pc |-> "idle"]

\* RetentionPeriod values, in days
DAYS_7 == 7
DAYS_90 == 90
DAYS_365 == 365
UNLIMITED == 0 - 1

\* the data types whose files apply_retention_policies has a branch for,
\* and the directory of each under storage_path
FileClasses == {"audit_logs", "metrics", "temporary"}

ClassDir == [audit_logs |-> "audit", metrics |-> "metrics", temporary |-> "tmp"]

\* RetentionPolicy(data_type, retention_period, enabled=True,
\* archive_before_delete=False, compliance_hold=False)
RetentionPolicy(retention_days, enabled, archive_before_delete, compliance_hold) ==
    [retention_days |-> retention_days, enabled |-> enabled,
     archive_before_delete |-> archive_before_delete,
     compliance_hold |-> compliance_hold]

\* _load_default_policies() for the plan tier "standard"
StandardPolicies ==
    [audit_logs |-> RetentionPolicy(DAYS_365, TRUE, TRUE, FALSE),
     metrics |-> RetentionPolicy(DAYS_90, TRUE, FALSE, FALSE),
     temporary |-> RetentionPolicy(DAYS_7, TRUE, FALSE, FALSE)]

\* what a call left behind: the operation, its dry_run argument, the name of
\* the exception it raised ("" when it returned) and the counts it returned
Report(op, dry_run, raised, deleted) ==
    [op |-> op, dry_run |-> dry_run, raised |-> raised, deleted |-> deleted]

NoCounts == [c \in {} |-> 0]

NoReport == Report("", FALSE, "", NoCounts)

\* an empty storage tree and a manager with the default policies
IdleRet == [live |-> {}, archived |-> {}, policies |-> StandardPolicies,
            result |-> NoReport]

\* no function has been called
IdleFn == [op |-> "none"]

ExtIdle == tr = IdleTR /\ lg = IdleLearn /\ rt = IdleRet /\ fn = IdleFn

DbInit(pols) ==
    /\ ExtIdle
    /\ alerts = NoRows
    /\ decisions = NoRows
    /\ suppressed = NoRows
    /\ late_replay = NoRows
    /\ validation_logs = NoRows
    /\ now = 0
    /\ policy \in pols
    /\ session = <<>>
    /\ last = NoCall
    /\ wk = [w \in Workers |-> IdleWorker]
    /\ rc = [r \in Reconcilers |-> IdleReconciler]

AuditIdle ==
    /\ auditKind = "jsonl"
    /\ auditLog = <<>>
    /\ writes = 0
    /\ tamper = "none"
    /\ vres = NoResult

-----------------------------------------------------------------------------
(* Audit store: operations *)

IdleThreads == [t \in Threads |-> [pc |-> "idle", entry |-> NoEntry]]

AuditInit ==
    /\ auditKind \in {"jsonl", "sqlite"}
    /\ auditLog = <<>>
    /\ writes = 0
    /\ tamper = "none"
    /\ vres = NoResult
    /\ thr = IdleThreads
    /\ DbInit({DefaultPolicy})

\* what a caller may put under "_prev" in the diff it passes: nothing, a
\* made-up value, or the hash of the entry that is currently last
CallerPrev(log) == {NoPrev, 1} \cup {LastHash(log)}

\* append() called by a single thread: read the last hash, hash, write
AuditAppend(ts, actor, action, body, userPrev) ==
    /\ tamper = "none"
    /\ Len(auditLog) < MaxEntries
    /\ auditLog' = Append(auditLog,
            MakeEntry(ts, actor, action, [body |-> body, prev |-> userPrev],
                      LastHash(auditLog)))
    /\ writes' = writes + 1
    /\ vres' = NoResult
    /\ UNCHANGED <<auditKind, tamper, thr, dbVars, extVars>>

AppendAny ==
    \E ts \in AppendStamps, actor \in AppendActors, action \in AppendActions,
       body \in AppendBodies, p \in CallerPrev(auditLog) :
        AuditAppend(ts, actor, action, body, p)

\* verify_chain(limit) called; limit 0 is limit=None
VerifyChain(limit) ==
    /\ \A t \in Threads : thr[t].pc = "idle"
    /\ vres' = [res |-> verify_chain(auditKind, auditLog, limit),
                called |-> TRUE, limit |-> limit]
    /\ UNCHANGED <<auditKind, auditLog, writes, tamper, thr, dbVars, extVars>>

VerifyAny == \E limit \in 0..1 : VerifyChain(limit)

\* Outside the program: one field of a stored entry is overwritten (the
\* stored hash is left as it was)
TamperField(i, field, v) ==
    /\ tamper = "none"
    /\ i \in 1..Len(auditLog)
    /\ \/ field = "ts" /\ v # auditLog[i].ts
          /\ auditLog' = [auditLog EXCEPT ![i].ts = v]
       \/ field = "actor" /\ v # auditLog[i].actor
          /\ auditLog' = [auditLog EXCEPT ![i].actor = v]
       \/ field = "action" /\ v # auditLog[i].action
          /\ auditLog' = [auditLog EXCEPT ![i].action = v]
       \/ field = "diff" /\ v # auditLog[i].diff.body
          /\ auditLog' = [auditLog EXCEPT ![i].diff.body = v]
    /\ tamper' = "changed"
    /\ vres' = NoResult
    /\ UNCHANGED <<auditKind, writes, thr, dbVars, extVars>>

TamperAny ==
    \E i \in 1..Len(auditLog) :
        \/ TamperField(i, "ts", 3)
        \/ TamperField(i, "actor", "mallory")
        \/ TamperField(i, "action", "delete")
        \/ TamperField(i, "diff", "b1")

RemoveAt(log, i) == SubSeq(log, 1, i - 1) \o SubSeq(log, i + 1, Len(log))

\* Outside the program: a stored entry that is not the last one is removed
RemoveEntry(i) ==
    /\ tamper = "none"
    /\ i \in 1..(Len(auditLog) - 1)
    /\ auditLog' = RemoveAt(auditLog, i)
    /\ tamper' = "removed"
    /\ vres' = NoResult
    /\ UNCHANGED <<auditKind, writes, thr, dbVars, extVars>>

RemoveAny == \E i \in 1..Len(auditLog) : RemoveEntry(i)

AuditNext == AppendAny \/ VerifyAny \/ TamperAny \/ RemoveAny

SpecAudit == AuditInit /\ [][AuditNext]_vars

-----------------------------------------------------------------------------
(* The same calls made on a JSONLAuditStore and on a SQLiteAuditStore      *)

\* the limits passed to tail; limit = -1 is a negative limit
TailLimits == (0 - 1)..(MaxEntries + 1)

\* tail(limit) called on the store
TailCall(limit) ==
    /\ \A t \in Threads : thr[t].pc = "idle"
    /\ fn' = [op |-> "tail", limit |-> limit,
              out |-> tail(auditKind, auditLog, limit)]
    /\ UNCHANGED <<auditVars, dbVars, tr, lg, rt>>

TailAny == \E limit \in TailLimits : TailCall(limit)

StoresNext == AppendAny \/ VerifyAny \/ TailAny

SpecStores == AuditInit /\ [][StoresNext]_vars

OtherKind(kind) == IF kind = "jsonl" THEN "sqlite" ELSE "jsonl"

\* C26: for the same appends with the same timestamps, tail(limit) returns
\* the same entries in the same order, and verify_chain(limit) the same
\* ok / entries / failure_index / last_hash, on a JSONLAuditStore and on a
\* SQLiteAuditStore.
C26_StoresAgree ==
    [][/\ fn' # fn =>
            fn'.out = tail(OtherKind(auditKind), auditLog, fn'.limit)
       /\ (vres' # vres /\ vres'.called) =>
            vres'.res = verify_chain(OtherKind(auditKind), auditLog, vres'.limit)]_vars

-----------------------------------------------------------------------------
(* SQLiteAuditStore.append called from several threads.  The store takes   *)
(* its lock twice: once in _with_prev_hash_in_diff to read the last hash,  *)
(* once in append to insert and commit.  Each locked region is one step.   *)

ThreadsInit ==
    /\ auditKind = "sqlite"
    /\ auditLog = <<>>
    /\ writes = 0
    /\ tamper = "none"
    /\ vres = NoResult
    /\ thr = IdleThreads
    /\ DbInit({DefaultPolicy})

\* with self._lock: SELECT hash ... ORDER BY id DESC LIMIT 1; then, outside
\* the lock, the diff gets its "_prev" and the entry is hashed
ThreadReadPrev(t, ts, actor, action, body) ==
    /\ thr[t].pc = "idle"
    /\ Len(auditLog) + Cardinality({u \in Threads : thr[u].pc = "hashed"}) < MaxEntries
    /\ thr' = [thr EXCEPT ![t] =
            [pc |-> "hashed",
             entry |-> MakeEntry(ts, actor, action,
                                 [body |-> body, prev |-> NoPrev],
                                 LastHash(auditLog))]]
    /\ UNCHANGED <<auditKind, auditLog, writes, tamper, vres, dbVars, extVars>>

\* with self._lock: INSERT INTO audit ...; commit
ThreadInsert(t) ==
    /\ thr[t].pc = "hashed"
    /\ auditLog' = Append(auditLog, thr[t].entry)
    /\ writes' = writes + 1
    /\ thr' = [thr EXCEPT ![t] = [pc |-> "idle", entry |-> NoEntry]]
    /\ vres' = NoResult
    /\ UNCHANGED <<auditKind, tamper, dbVars, extVars>>

ThreadsNext ==
    \/ \E t \in Threads, ts \in AppendStamps, actor \in AppendActors,
          action \in AppendActions, body \in AppendBodies :
            ThreadReadPrev(t, ts, actor, action, body)
    \/ \E t \in Threads : ThreadInsert(t)
    \/ VerifyAny

SpecAuditThreads == ThreadsInit /\ [][ThreadsNext]_vars

-----------------------------------------------------------------------------
(* Claims about the audit store *)

\* C5: after n appends on an initially empty store and no other
\* modification, verify_chain() (no limit) returns ok with entries = n,
\* whatever the diff passed to append contains.
C5_VerifyOkAfterAppends ==
    (vres.called /\ vres.limit = 0 /\ tamper = "none")
        => (vres.res.ok /\ vres.res.entries = writes)

\* C6: under concurrent appends every stored entry's _prev is the hash of
\* the entry stored immediately before it, no two entries carry the same
\* _prev, and verify_chain() returns ok.
C6_ChainLinkedUnderThreads ==
    /\ \A i \in 2..Len(auditLog) : auditLog[i].diff.prev = auditLog[i-1].hash
    /\ \A i, j \in 1..Len(auditLog) :
          i # j => auditLog[i].diff.prev # auditLog[j].diff.prev
    /\ SQLite_verify_chain(auditLog, 0).ok

\* position (0-based) of the first stored entry whose recomputed hash or
\* whose _prev link disagrees; the first entry's link must be absent
Disagrees(log, i) ==
    \/ compute_hash(BasePayload(log[i])) # log[i].hash
    \/ log[i].diff.prev # (IF i = 1 THEN NoPrev ELSE log[i-1].hash)

\* C7: once a stored entry's ts, actor, action or diff was changed, or an
\* entry other than the last was removed, verify_chain() without limit
\* returns ok = false with failure_index the first disagreeing entry.
C7_TamperDetected ==
    (vres.called /\ vres.limit = 0 /\ tamper # "none")
        => /\ ~vres.res.ok
           /\ \E i \in 1..Len(auditLog) :
                 /\ Disagrees(auditLog, i)
                 /\ \A j \in 1..(i-1) : ~Disagrees(auditLog, j)
                 /\ vres.res.failure_index = i - 1

-----------------------------------------------------------------------------
(* decide_and_record called directly, any context, on one Session          *)

\* ts_a - alert.ts for the entries of recent_A
Deltas == {0 - 1 - NEAR_SEC, 0 - NEAR_SEC, 0, 1}

\* <<q_value, support, lift>> of the edges a context may hold: the mock
\* edge, an edge exactly on the three thresholds, and one edge just beyond
\* each threshold
MockStats == <<1, 50, 25>>

EdgeStats == {MockStats, <<ALPHA, S_MIN, LIFT_MIN>>,
              <<ALPHA + 1, 50, 25>>, <<ALPHA, S_MIN - 1, 25>>,
              <<ALPHA, 50, LIFT_MIN - 1>>}

\* edge_meta with an edge of these statistics from each rule of from to the
\* alert's rule
EdgeTable(alert, from, st) ==
    [p \in Rules \X Rules |->
        IF p[2] = alert.rule_id /\ p[1] \in from
        THEN EdgeMeta(p[1], p[2], st[1], st[2], st[3]) ELSE NoEdge]

RecentEntries(ents, deltas, alert) ==
    {[ent |-> e, rule |-> r, ts |-> alert.ts + d] :
        e \in ents, r \in Rules, d \in deltas}

OtherEntity(e) == CHOOSE x \in Entities : x # e

\* dicts of at most two entries: one entry at each offset for the alert's
\* entity, one inside the window for another entity; two entries of which the
\* first does not match (other entity, or outside the window)
RecentLists(alert) ==
    {<<>>}
    \cup {<<x>> : x \in RecentEntries({alert.entity_id}, Deltas, alert)}
    \cup {<<x>> : x \in RecentEntries({OtherEntity(alert.entity_id)}, {0}, alert)}
    \cup {<<[ent |-> OtherEntity(alert.entity_id), rule |-> "R-001", ts |-> alert.ts],
             [ent |-> alert.entity_id, rule |-> "R-001", ts |-> alert.ts + d]>> :
                d \in {0, 1}}
    \cup {<<[ent |-> alert.entity_id, rule |-> "R-002", ts |-> alert.ts + 1],
             [ent |-> alert.entity_id, rule |-> "R-001", ts |-> alert.ts + d]>> :
                d \in {0, 1}}

InDegs(alert) ==
    {[r \in Rules |-> 0], [r \in Rules |-> IF r = alert.rule_id THEN 1 ELSE 0]}

\* every dict above with no edge and with the mock edge; every kind of edge
\* with one recent alert of the same entity at the two ends of the window
CallContexts(alert) ==
    [in_deg : InDegs(alert), recent_A : RecentLists(alert),
     edge_meta : {EdgeTable(alert, {}, MockStats),
                  EdgeTable(alert, {"R-001"}, MockStats),
                  EdgeTable(alert, Rules, MockStats)}]
    \cup
    [in_deg : InDegs(alert),
     recent_A : {<<[ent |-> alert.entity_id, rule |-> "R-001", ts |-> alert.ts + d]>> :
                    d \in {0 - NEAR_SEC, 0}},
     edge_meta : {EdgeTable(alert, {"R-001"}, st) : st \in EdgeStats}]

MaxDecided == 1        \* alerts stored for direct decide_and_record calls

EngineSeverities == {"medium", "high", "critical"}
EngineSignatures == Signatures

\* get_db(): the Session is closed, what was added and not committed is lost
CloseSession ==
    /\ session # <<>>
    /\ session' = <<>>
    /\ UNCHANGED <<alerts, decisions, suppressed, late_replay, validation_logs,
                   now, policy, last, wk, rc, auditVars, extVars>>

EngineInit == DbInit(EnginePolicies) /\ AuditIdle /\ thr = IdleThreads

EngineNext ==
    \/ \E alert_data \in AlertData({now}, {"h1"}, Rules, EngineSeverities, EngineSignatures) :
           ingest_alert_unprocessed(alert_data, MaxDecided)
    \/ \E i \in DOMAIN alerts :
           \E ctx \in CallContexts(alerts[i]) : decide_and_record(alerts[i], ctx)
    \/ CloseSession

SpecEngine == EngineInit /\ [][EngineNext]_vars

\* the engine with a database that may fail during a call
FaultsNext ==
    \/ EngineNext
    \/ \E i \in DOMAIN alerts :
           \E ctx \in CallContexts(alerts[i]) :
               \E fault \in Faults : decide_and_record_failing(alerts[i], ctx, fault)

SpecFaults == EngineInit /\ [][FaultsNext]_vars

-----------------------------------------------------------------------------
(* Claims about the decision engine *)

\* the safety guards of the specification that alert a matches under pol
GuardsMatching(pol, a) ==
    {g \in {"high_severity_protection", "allowlist", "critical_signature"} :
        \/ g = "high_severity_protection" /\ pol.HIGH_SEVERITY_PROTECTION
              /\ (a.severity = "high" \/ a.severity = "critical")
        \/ g = "allowlist" /\ a.rule_id \in pol.ALLOWLIST
        \/ g = "critical_signature" /\ a.signature = "Ransomware_Alert"}

DecisionsFor(alert_id) == {j \in DOMAIN decisions : decisions[j].alert_id = alert_id}

\* C1: an alert that matches a safety guard never has a 'suppress' decision
\* record nor a Suppressed record; when it is decided, the decision returned
\* and recorded is 'deliver' with a matching guard as reason, and the reason
\* is high_severity_protection when that guard matches.
C1_GuardedAlertsDelivered ==
    /\ \A i \in DOMAIN alerts :
          GuardsMatching(policy, alerts[i]) # {} =>
             /\ \A j \in DecisionsFor(alerts[i].id) :
                   /\ decisions[j].decision = "deliver"
                   /\ decisions[j].why \in GuardsMatching(policy, alerts[i])
                   /\ "high_severity_protection" \in GuardsMatching(policy, alerts[i])
                         => decisions[j].why = "high_severity_protection"
             /\ \A j \in DOMAIN suppressed : suppressed[j].alert_id # alerts[i].id
    /\ (last.called /\ GuardsMatching(policy, last.alert) # {}) =>
          /\ last.ret.decision = "deliver"
          /\ last.ret.why \in GuardsMatching(policy, last.alert)

\* a high-severity alert under high-severity protection was decided with a
\* strong edge and a recent antecedent inside the window, its rule not a root
C1_Witness ==
    /\ last.called
    /\ policy.HIGH_SEVERITY_PROTECTION
    /\ last.alert.severity = "high"
    /\ last.justified
    /\ ~last.root
    /\ DecisionsFor(last.alert.id) # {}

\* C2: a call for an alert that already has a decision record leaves the
\* decision, suppression and validation tables as they were and returns the
\* decision and reason of the stored record; there is exactly one decision
\* record for the alert afterwards.
C2_SecondCallIsNoOp ==
    [][(last' # last /\ last'.called /\ last'.existed) =>
          /\ decisions' = decisions
          /\ suppressed' = suppressed
          /\ validation_logs' = validation_logs
          /\ Cardinality({j \in DOMAIN decisions' :
                            decisions'[j].alert_id = last'.alert.id}) = 1
          /\ last'.ret.decision = DecisionOf(decisions, last'.alert.id).decision
          /\ last'.ret.why = DecisionOf(decisions, last'.alert.id).why]_vars

\* C3: a call returns (and, when it creates the record, records) 'suppress'
\* only if the context holds a recent alert of the same entity with a strong
\* edge to the alert's rule and an offset in [0, NEAR_SEC]; when there is
\* none and neither a guard nor the root pass applies, it returns and
\* records 'deliver' with reason no_edge.
C3_SuppressOnlyOnStrongRecentEdge ==
    last.called =>
       /\ last.ret.decision = "suppress" => last.justified
       /\ ~last.existed =>
             \A j \in DecisionsFor(last.alert.id) :
                 /\ decisions[j].decision = last.ret.decision
                 /\ decisions[j].why = last.ret.why
       /\ (/\ ~last.justified
           /\ GuardsMatching(policy, last.alert) = {}
           /\ ~(policy.ROOT_PASS /\ last.root))
             => (last.ret.decision = "deliver" /\ last.ret.why = "no_edge")

\* a call created a 'suppress' record and its Suppressed row
C3_Witness ==
    /\ last.called
    /\ ~last.existed
    /\ last.ret.decision = "suppress"
    /\ \E j \in DecisionsFor(last.alert.id) : decisions[j].decision = "suppress"
    /\ \E j \in DOMAIN suppressed : suppressed[j].alert_id = last.alert.id

-----------------------------------------------------------------------------
(* Contexts in which two recent alerts of the alert's entity each offer an *)
(* edge to the alert's rule                                                *)

TieRules == Rules \cup {"R-003"}

\* <<q_value, support, lift>> of the two edges: strong edges of different
\* strength, and one edge that is not strong
TieStats == {MockStats, <<ALPHA, S_MIN, LIFT_MIN>>, <<ALPHA + 1, 50, 25>>}

\* ctx for alert: recent alerts of rules x and y (in this order in the dict)
\* at the alert's time, edges x -> alert.rule_id and y -> alert.rule_id
TieContext(alert, x, y, sx, sy) ==
    [in_deg |-> [r \in TieRules |-> IF r = alert.rule_id THEN 2 ELSE 0],
     recent_A |-> <<[ent |-> alert.entity_id, rule |-> x, ts |-> alert.ts],
                    [ent |-> alert.entity_id, rule |-> y, ts |-> alert.ts]>>,
     edge_meta |-> [p \in TieRules \X TieRules |->
                      IF p = <<x, alert.rule_id>>
                      THEN EdgeMeta(x, alert.rule_id, sx[1], sx[2], sx[3])
                      ELSE IF p = <<y, alert.rule_id>>
                      THEN EdgeMeta(y, alert.rule_id, sy[1], sy[2], sy[3])
                      ELSE NoEdge]]

TieContexts(alert) ==
    {TieContext(alert, x, y, sx, sy) :
        x \in TieRules \ {alert.rule_id}, y \in TieRules \ {alert.rule_id},
        sx \in TieStats, sy \in TieStats}

TieNext ==
    \/ \E alert_data \in AlertData({now}, {"h1"}, Rules, EngineSeverities, {""}) :
           ingest_alert_unprocessed(alert_data, MaxDecided)
    \/ \E i \in DOMAIN alerts :
           \E ctx \in TieContexts(alerts[i]) :
               /\ ctx.recent_A[1].rule # ctx.recent_A[2].rule
               /\ decide_and_record(alerts[i], ctx)
    \/ CloseSession

SpecTie == EngineInit /\ [][TieNext]_vars

\* the edges the recent alerts of ctx offer to alert: same entity, offset in
\* the near window, strong
StrongMatches(alert, ctx) ==
    {ctx.edge_meta[<<ctx.recent_A[i].rule, alert.rule_id>>] :
        i \in {k \in DOMAIN ctx.recent_A : Justifies(alert, ctx, ctx.recent_A[k])}}

\* support / q_value of e is larger than that of f
Stronger(e, f) == e.support * f.q_value > f.support * e.q_value

\* the same context with the dict iterated in the opposite order
Reordered(ctx) == [ctx EXCEPT !.recent_A = Reverse(@)]

\* C27: when several recent alerts of the entity each offer a strong
\* in-window edge, the decision, the recorded edge_id and the recorded
\* confidence of a call are those of the same call with the recent-alert
\* map iterated in another order, and the edge used is the one with the
\* largest support / q_value.
C27_TieBreakDeterminism ==
    [][\A i \in DOMAIN alerts : \A ctx \in TieContexts(alerts[i]) :
          (/\ ctx.recent_A[1].rule # ctx.recent_A[2].rule
           /\ Cardinality(StrongMatches(alerts[i], ctx)) > 1
           /\ decide_and_record(alerts[i], ctx)
           /\ Len(decisions') > Len(decisions))
          => LET rec == decisions'[Len(decisions')]
                 other == decide(policy, alerts, now, alerts[i], Reordered(ctx))
             IN  rec.edge_id # NoEdge.edge_id =>
                   /\ rec.decision = other.decision
                   /\ rec.edge_id = other.edge.edge_id
                   /\ rec.confidence = other.confidence
                   /\ \A e \in StrongMatches(alerts[i], ctx) :
                         ~Stronger(e, ctx.edge_meta[rec.edge_id])]_vars

-----------------------------------------------------------------------------
(* Alerts posted to /ingest one after the other                            *)

\* the timestamps the posted alerts carry
IngestStamps == {0, 30, NEAR_SEC, NEAR_SEC + 1}

IngestSeverities == {"medium", "high"}

IngestSignatures == {"", "Ransomware_Alert"}

IngestInit == DbInit({DefaultPolicy}) /\ AuditIdle /\ thr = IdleThreads

IngestNext ==
    \E alert_data \in AlertData(IngestStamps, Entities, Rules, IngestSeverities,
                                IngestSignatures) :
        ingest_alert(alert_data)

SpecIngest == IngestInit /\ [][IngestNext]_vars

\* a1 (rule R-001) was ingested before a2 (rule R-002) of the same entity,
\* a2's timestamp is at an offset in [0, NEAR_SEC] after a1's, no guard
\* matches either, and a2's validation score when it was ingested was at
\* most the threshold
NearPair(i, j) ==
    /\ i < j
    /\ alerts[i].rule_id = "R-001" /\ alerts[j].rule_id = "R-002"
    /\ alerts[i].entity_id = alerts[j].entity_id
    /\ alerts[j].ts - alerts[i].ts >= 0
    /\ alerts[j].ts - alerts[i].ts <= NEAR_SEC
    /\ GuardsMatching(policy, alerts[i]) = {}
    /\ GuardsMatching(policy, alerts[j]) = {}
    /\ ~OverThreshold(validation_final_score(SubSeq(alerts, 1, j), alerts[j], now))

\* C4: for such a pair the R-001 alert is delivered with reason root_pass and
\* the R-002 alert is suppressed, with a pending Suppressed record and a
\* confidence strictly between 0 and 1.
C4_NearWindowSuppressedOnIngest ==
    \A i, j \in DOMAIN alerts :
        NearPair(i, j) =>
           /\ \E d \in DOMAIN decisions :
                 /\ decisions[d].alert_id = alerts[i].id
                 /\ decisions[d].decision = "deliver"
                 /\ decisions[d].why = "root_pass"
           /\ \E d \in DOMAIN decisions :
                 /\ decisions[d].alert_id = alerts[j].id
                 /\ decisions[d].decision = "suppress"
                 /\ Less(Zero, decisions[d].confidence)
                 /\ Less(decisions[d].confidence, One)
           /\ \E s \in DOMAIN suppressed :
                 /\ suppressed[s].alert_id = alerts[j].id
                 /\ suppressed[s].status = "pending"

-----------------------------------------------------------------------------
(* Two decide_and_record calls running at the same time, each on its own   *)
(* Session.  A call reads (the validation queries, the check for an         *)
(* existing record) and adds its rows to its Session in one step; flush     *)
(* and commit are a second step.                                            *)

RaceStamps == {0, 30}

RaceSeverities == {"medium", "high"}

\* up to `existing = db.query(DecisionRecord)...first()` and db.add(): the
\* call returns at once when a record exists, else its rows wait for commit
WorkerCheck(w, alert) ==
    LET ctx == build_decision_context(alerts, alert)
        out == decide(policy, alerts, now, alert, ctx)
    IN  /\ wk[w].pc = "idle"
        /\ wk' = [wk EXCEPT ![w] =
                    [pc |-> IF HasDecision(decisions, alert.id)
                            THEN "returned" ELSE "added",
                     out |-> out, alert_id |-> alert.id]]
        /\ UNCHANGED <<alerts, decisions, suppressed, late_replay,
                       validation_logs, now, policy, session, last, rc, auditVars, extVars>>

\* db.commit(): the INSERT into decisions violates the unique constraint on
\* alert_id when another call has committed a record meanwhile, and the
\* IntegrityError leaves decide_and_record; else the rows are stored
WorkerCommit(w) ==
    LET alert == alerts[wk[w].alert_id]
        w_out == wk[w].out
    IN  /\ wk[w].pc = "added"
        /\ IF HasDecision(decisions, alert.id)
           THEN /\ wk' = [wk EXCEPT ![w].pc = "raised"]
                /\ UNCHANGED <<decisions, suppressed, validation_logs>>
           ELSE /\ wk' = [wk EXCEPT ![w].pc = "returned"]
                /\ decisions' = Append(decisions, NewDecisionRecord(alert, w_out, now))
                /\ suppressed' = IF w_out.decision = "suppress"
                                 THEN Append(suppressed, NewSuppressed(alert, w_out, now))
                                 ELSE suppressed
                /\ validation_logs' = InsertLogs(validation_logs,
                                          PendingAfter(<<>>, alert, w_out), now)
        /\ UNCHANGED <<alerts, late_replay, now, policy, session, last, rc, auditVars, extVars>>

RaceInit == DbInit({DefaultPolicy}) /\ AuditIdle /\ thr = IdleThreads

RaceNext ==
    \/ \E alert_data \in AlertData(RaceStamps, {"h1"}, Rules, RaceSeverities, {""}) :
           ingest_alert_unprocessed(alert_data, MaxAlerts)
    \/ \E w \in Workers, i \in DOMAIN alerts : WorkerCheck(w, alerts[i])
    \/ \E w \in Workers : WorkerCommit(w)

SpecRace == RaceInit /\ [][RaceNext]_vars

\* C8: when two concurrent calls for the same alert have both ended, neither
\* has raised, there is exactly one decision record and at most one
\* Suppressed record for the alert, and both returned the decision of the
\* stored record.
C8_ConcurrentCallsResolve ==
    \A v, w \in Workers :
        (/\ v # w
         /\ wk[v].pc \in {"returned", "raised"}
         /\ wk[w].pc \in {"returned", "raised"}
         /\ wk[v].alert_id = wk[w].alert_id)
        => /\ wk[v].pc = "returned" /\ wk[w].pc = "returned"
           /\ Cardinality(DecisionsFor(wk[v].alert_id)) = 1
           /\ Cardinality({s \in DOMAIN suppressed :
                             suppressed[s].alert_id = wk[v].alert_id}) <= 1
           /\ \A d \in DecisionsFor(wk[v].alert_id) :
                 /\ decisions[d].decision = wk[v].out.decision
                 /\ decisions[d].decision = wk[w].out.decision

-----------------------------------------------------------------------------
(* Late-replay reconciler (jobs/reconciler.py)                             *)

TTL_SEC == 86400
LATE_FALSE_THRESHOLD == 60     \* BOLCD_LATE_FALSE_THRESHOLD, 0.6

\* edge_meta.get(key, default) on sup.meta: the engine writes {"q": ...}, so
\* for its rows every one of the four keys takes its default
MetaGet(meta, key, default) == IF key \in DOMAIN meta THEN meta[key] ELSE default

DriftMeta(sup) ==
    LET original_q == MetaGet(sup.meta, "original_q", 5)
        original_support == MetaGet(sup.meta, "original_support", 20)
    IN  [original_q |-> original_q,
         current_q |-> MetaGet(sup.meta, "current_q", original_q),
         original_support |-> original_support,
         current_support |-> MetaGet(sup.meta, "current_support", original_support)]

edge_drifted(edge_meta) ==
    \/ edge_meta.current_q > edge_meta.original_q * 2
    \/ 2 * edge_meta.current_support < edge_meta.original_support

Verdict(fire, reason, confidence) ==
    [fire |-> fire, reason |-> reason, confidence |-> confidence]

\* the rules with edge_drift tried before false_suppression
should_late_replay_drift_first(sup, alert_rows, log_rows, t) ==
    LET score == sup.false_suppression_score
        newer == {i \in DOMAIN log_rows :
                    /\ log_rows[i].alert_id = sup.alert_id
                    /\ log_rows[i].validation_ts > sup.inserted_ts
                    /\ Less(Rat(7, 10), log_rows[i].score)}
        later_high == {i \in DOMAIN alert_rows :
                    /\ \E a \in DOMAIN alert_rows :
                          /\ alert_rows[a].id = sup.alert_id
                          /\ alert_rows[i].entity_id = alert_rows[a].entity_id
                          /\ alert_rows[i].rule_id = alert_rows[a].rule_id
                    /\ alert_rows[i].severity \in HighSeverities
                    /\ alert_rows[i].ts > sup.inserted_ts}
    IN  IF t - sup.inserted_ts >= TTL_SEC
        THEN Verdict(TRUE, "ttl_policy", Rat(7, 10))
        ELSE IF edge_drifted(DriftMeta(sup))
        THEN Verdict(TRUE, "edge_drift", Rat(6, 10))
        ELSE IF score[1] # 0 /\ ~Less(score, Rat(LATE_FALSE_THRESHOLD, 100))
        THEN Verdict(TRUE, "false_suppression", score)
        ELSE IF later_high # {}
        THEN Verdict(TRUE, "severity_escalation", Rat(8, 10))
        ELSE IF newer # {}
        THEN Verdict(TRUE, "validation_update",
                     log_rows[CHOOSE i \in newer : \A k \in newer : i <= k].score)
        ELSE Verdict(FALSE, "", Zero)

\* should_late_replay(sup, db) at clock t
should_late_replay(sup, alert_rows, log_rows, t) ==
    LET age_seconds == t - sup.inserted_ts
        score == sup.false_suppression_score
        own == {i \in DOMAIN alert_rows : alert_rows[i].id = sup.alert_id}
        recent_high ==
            Cardinality({i \in DOMAIN alert_rows :
                /\ \E a \in own :
                      /\ alert_rows[i].entity_id = alert_rows[a].entity_id
                      /\ alert_rows[i].rule_id = alert_rows[a].rule_id
                /\ alert_rows[i].severity \in HighSeverities
                /\ alert_rows[i].ts > sup.inserted_ts})
        recent_validation ==
            {i \in DOMAIN log_rows :
                /\ log_rows[i].alert_id = sup.alert_id
                /\ log_rows[i].validation_ts > sup.inserted_ts
                /\ Less(Rat(7, 10), log_rows[i].score)}
    IN  IF age_seconds >= TTL_SEC
        THEN Verdict(TRUE, "ttl_policy", Rat(7, 10))
        ELSE IF score[1] # 0 /\ ~Less(score, Rat(LATE_FALSE_THRESHOLD, 100))
        THEN Verdict(TRUE, "false_suppression", score)
        ELSE IF edge_drifted(DriftMeta(sup))
        THEN Verdict(TRUE, "edge_drift", Rat(6, 10))
        ELSE IF own # {} /\ recent_high > 0
        THEN Verdict(TRUE, "severity_escalation", Rat(8, 10))
        ELSE IF recent_validation # {}
        THEN Verdict(TRUE, "validation_update",
                     log_rows[CHOOSE i \in recent_validation :
                                 \A k \in recent_validation : i <= k].score)
        ELSE Verdict(FALSE, "", Zero)

\* db.query(Suppressed).filter(status == "pending").all()
PendingSuppressed(rows) ==
    LET IsPending(sup) == sup.status = "pending"
    IN  SelectSeq(rows, IsPending)

HasLateReplay(rows, alert_id) == \E i \in DOMAIN rows : rows[i].alert_id = alert_id

\* run_once up to the query for pending suppressions, on a new Session
SweepBegin(r) ==
    /\ rc[r].pc = "idle"
    /\ rc' = [rc EXCEPT ![r] =
                [pc |-> "running", queue |-> PendingSuppressed(suppressed),
                 adds |-> <<>>, marks |-> {}, fired |-> {}]]
    /\ UNCHANGED <<alerts, decisions, suppressed, late_replay, validation_logs,
                   now, policy, session, last, wk, auditVars, extVars>>

\* one turn of the loop `for sup in pending`: sup is the object as it was
\* loaded; the queries read the database as it is now
SweepItem(r) ==
    LET sup == Head(rc[r].queue)
        verdict == should_late_replay(sup, alerts, validation_logs, now)
        age_seconds == now - sup.inserted_ts
        found == {i \in DOMAIN alerts : alerts[i].id = sup.alert_id}
        alert == alerts[CHOOSE i \in found : TRUE]
    IN  /\ rc[r].pc = "running"
        /\ rc[r].queue # <<>>
        /\ rc' = [rc EXCEPT ![r] =
             IF ~verdict.fire
             THEN [@ EXCEPT !.queue = Tail(@),
                            !.marks = IF age_seconds > TTL_SEC * 2
                                      THEN @ \cup {<<sup.alert_id, "expired">>}
                                      ELSE @]
             ELSE IF found = {} \/ HasLateReplay(late_replay, sup.alert_id)
             THEN [@ EXCEPT !.queue = Tail(@),
                            !.fired = @ \cup {sup.alert_id}]
             ELSE [@ EXCEPT !.queue = Tail(@),
                            !.fired = @ \cup {sup.alert_id},
                            !.adds = Append(@, [alert_id |-> alert.id,
                                                original_ts |-> alert.ts,
                                                reason |-> verdict.reason,
                                                confidence |-> verdict.confidence,
                                                delivered |-> FALSE]),
                            !.marks = @ \cup {<<sup.alert_id, "late">>}]]
        /\ UNCHANGED <<alerts, decisions, suppressed, late_replay, validation_logs,
                       now, policy, session, last, wk, auditVars, extVars>>

\* the constraint left out of the table definition
NoLateReplayConflict(rows, adds) == FALSE

\* the unique constraint on late_replay.alert_id
LateReplayConflict(rows, adds) ==
    \E i \in DOMAIN adds : HasLateReplay(rows, adds[i].alert_id)

\* UPDATE suppressed SET status = ... for the objects the sweep changed
ApplyMarks(rows, marks) ==
    [i \in DOMAIN rows |->
        IF \E m \in marks : m[1] = rows[i].alert_id
        THEN [rows[i] EXCEPT !.status =
                 (CHOOSE m \in marks : m[1] = rows[i].alert_id)[2]]
        ELSE rows[i]]

\* the clean-up after the commit: expired rows older than seven days go
CleanExpired(rows, t) ==
    LET Kept(sup) == ~(sup.status = "expired" /\ sup.inserted_ts < t - WeekSec)
    IN  SelectSeq(rows, Kept)

\* the end of run_once: db.commit() stores every change of the sweep, or
\* raises on the unique constraint, and then everything is rolled back and
\* the exception leaves run_once
SweepCommit(r) ==
    /\ rc[r].pc = "running"
    /\ rc[r].queue = <<>>
    /\ rc' = [rc EXCEPT ![r] = IdleReconciler]
    /\ IF LateReplayConflict(late_replay, rc[r].adds)
       THEN UNCHANGED <<late_replay, suppressed>>
       ELSE /\ late_replay' = late_replay \o
                   [i \in DOMAIN rc[r].adds |->
                       [alert_id |-> rc[r].adds[i].alert_id,
                        original_ts |-> rc[r].adds[i].original_ts,
                        late_ts |-> now,
                        reason |-> rc[r].adds[i].reason,
                        confidence |-> rc[r].adds[i].confidence,
                        delivered |-> rc[r].adds[i].delivered]]
            /\ suppressed' = CleanExpired(ApplyMarks(suppressed, rc[r].marks), now)
    /\ UNCHANGED <<alerts, decisions, validation_logs, now, policy, session,
                   last, wk, auditVars, extVars>>

\* the moments of the wall clock the model visits
TimePoints == {0, 30, 60, TTL_SEC + 30, 2 * TTL_SEC + 31}

Tick ==
    /\ \E t \in TimePoints :
          /\ t > now
          /\ \A u \in TimePoints : u > now => t <= u
          /\ now' = t
    /\ UNCHANGED <<alerts, decisions, suppressed, late_replay, validation_logs,
                   policy, session, last, wk, rc, auditVars, extVars>>

ReconInit == DbInit({DefaultPolicy}) /\ AuditIdle /\ thr = IdleThreads

ReconNext ==
    \/ \E alert_data \in AlertData({now}, {"h1"}, Rules, {"medium", "high"}, {""}) :
           ingest_alert(alert_data)
    \/ Tick
    \/ \E r \in Reconcilers : SweepBegin(r)
    \/ \E r \in Reconcilers : SweepItem(r)
    \/ \E r \in Reconcilers : SweepCommit(r)

SpecRecon == ReconInit /\ [][ReconNext]_vars

-----------------------------------------------------------------------------
(* Claims about the reconciler *)

LateReplaysFor(rows, alert_id) == {k \in DOMAIN rows : rows[k].alert_id = alert_id}

\* C9: a sweep in which a late-replay rule fired for a suppression ends
\* with a LateReplay record for that alert and the suppression in status
\* late; a suppression is late exactly when a LateReplay record exists for
\* its alert, and no alert has two LateReplay records.
C9_LateReplayPairing ==
    [][/\ \A r \in Reconcilers :
             (rc[r].pc = "running" /\ rc'[r].pc = "idle") =>
                \A id \in rc[r].fired :
                    /\ HasLateReplay(late_replay', id)
                    /\ \A i \in DOMAIN suppressed' :
                          suppressed'[i].alert_id = id
                             => suppressed'[i].status = "late"
       /\ \A i \in DOMAIN suppressed' :
             suppressed'[i].status = "late"
                <=> HasLateReplay(late_replay', suppressed'[i].alert_id)
       /\ \A i, j \in DOMAIN late_replay' :
             i # j => late_replay'[i].alert_id # late_replay'[j].alert_id]_vars

\* C10: a suppression that is not pending keeps its status in every step,
\* and no LateReplay record is created for its alert: every status change
\* starts from pending.
C10_TerminalStatuses ==
    [][\A i \in DOMAIN suppressed :
          suppressed[i].status # "pending" =>
             /\ \E j \in DOMAIN suppressed' :
                   suppressed'[j].alert_id = suppressed[i].alert_id
             /\ \A j \in DOMAIN suppressed' :
                   suppressed'[j].alert_id = suppressed[i].alert_id
                      => suppressed'[j].status = suppressed[i].status
             /\ LateReplaysFor(late_replay', suppressed[i].alert_id)
                   = LateReplaysFor(late_replay, suppressed[i].alert_id)]_vars

\* a sweep has committed a late replay while another suppression was late
\* already
C10_Witness ==
    \E i, j \in DOMAIN late_replay :
        /\ late_replay[i].late_ts < late_replay[j].late_ts
        /\ \A s \in DOMAIN suppressed :
              suppressed[s].alert_id \in {late_replay[i].alert_id,
                                           late_replay[j].alert_id}
                 => suppressed[s].status = "late"


\* the turn of the loop `for sup in pending` that reconciler r takes in this
\* step, if it takes one
TakesItem(r) ==
    /\ rc[r].pc = "running"
    /\ rc[r].queue # <<>>
    /\ rc'[r].pc = "running"
    /\ rc'[r].queue = Tail(rc[r].queue)

\* no suppression is ever in status expired, and no sweep ever intends to
\* set one: ttl_policy fires from age TTL on, so the branch that tests
\* age > 2 * TTL only runs for suppressions younger than TTL
ExpiredUnreachable ==
    /\ \A i \in DOMAIN suppressed : suppressed[i].status # "expired"
    /\ \A r \in Reconcilers : \A m \in rc[r].marks : m[2] # "expired"

\* C11: a sweep sets a pending suppression to expired exactly when
\* now - inserted_ts > 2 * TTL at the moment it examines it: never earlier,
\* and a suppression that is still pending at that age does expire.
C11_ExpiryAfterTwoTTL ==
    [][\A r \in Reconcilers :
          TakesItem(r) =>
             LET sup == Head(rc[r].queue)
             IN  (now - sup.inserted_ts > 2 * TTL_SEC)
                    <=> (<<sup.alert_id, "expired">> \in rc'[r].marks)]_vars

\* the step in which reconciler r leaves run_once
EndsSweep(r) == rc[r].pc = "running" /\ rc[r].queue = <<>> /\ rc'[r].pc = "idle"

\* C24: when the LateReplay of one suppression of a sweep violates the
\* unique constraint, the LateReplay records and the status late of the
\* other suppressions of the sweep are stored all the same.
C24_SweepErrorIsolation ==
    [][\A r \in Reconcilers :
          EndsSweep(r) =>
             \A k \in DOMAIN rc[r].adds :
                ~HasLateReplay(late_replay, rc[r].adds[k].alert_id) =>
                   /\ HasLateReplay(late_replay', rc[r].adds[k].alert_id)
                   /\ \A i \in DOMAIN suppressed' :
                         suppressed'[i].alert_id = rc[r].adds[k].alert_id
                            => suppressed'[i].status = "late"]_vars

-----------------------------------------------------------------------------
(* Sweeps over a database that holds one pending suppression: its stored   *)
(* score, its meta, the alerts and the validation logs around it and the   *)
(* clock are drawn from the values on both sides of each rule's condition  *)

RuleInserted == 30     \* inserted_ts of the suppression

RuleScores == {NoScore, Rat(59, 100), Rat(60, 100), Rat(90, 100)}

RuleMetas ==
    {[q |-> 1],
     [q |-> 1, original_q |-> 5, current_q |-> 10],
     [q |-> 1, original_q |-> 5, current_q |-> 11],
     [q |-> 1, current_support |-> 10],
     [q |-> 1, original_support |-> 20, current_support |-> 9]}

RuleAlert(id, ts, entity_id, rule_id, severity) ==
    [id |-> id, ts |-> ts, entity_id |-> entity_id, rule_id |-> rule_id,
     severity |-> severity, signature |-> ""]

RuleBaseAlerts ==
    <<RuleAlert(1, 0, "h1", "R-001", "medium"),
      RuleAlert(2, RuleInserted, "h1", "R-002", "medium")>>

\* the third alert, if there is one
RuleLaterAlerts ==
    {<<>>,
     <<RuleAlert(3, RuleInserted, "h1", "R-002", "high")>>,
     <<RuleAlert(3, RuleInserted + 1, "h1", "R-002", "high")>>,
     <<RuleAlert(3, RuleInserted + 10, "h1", "R-002", "critical")>>,
     <<RuleAlert(3, RuleInserted + 10, "h1", "R-002", "medium")>>,
     <<RuleAlert(3, RuleInserted + 10, "h2", "R-002", "high")>>,
     <<RuleAlert(3, RuleInserted + 10, "h1", "R-001", "high")>>}

RuleLog(ts, score) == [alert_id |-> 2, score |-> score, validation_ts |-> ts]

\* the log the engine wrote with the suppression, and those written later
RuleLogs ==
    {<<RuleLog(RuleInserted, Rat(27, 100))>>,
     <<RuleLog(RuleInserted, Rat(90, 100))>>,
     <<RuleLog(RuleInserted, Rat(27, 100)), RuleLog(RuleInserted + 1, Rat(70, 100))>>,
     <<RuleLog(RuleInserted, Rat(27, 100)), RuleLog(RuleInserted + 1, Rat(71, 100))>>,
     <<RuleLog(RuleInserted, Rat(27, 100)), RuleLog(RuleInserted + 10, Rat(80, 100)),
       RuleLog(RuleInserted + 11, Rat(90, 100))>>}

RuleClocks == {RuleInserted + 30, RuleInserted + TTL_SEC - 1, RuleInserted + TTL_SEC}

RuleDecision(alert_id, decision, why, t) ==
    [alert_id |-> alert_id, decision |-> decision, why |-> why, created_at |-> t]

RulesInit ==
    /\ \E later \in RuleLaterAlerts :
          /\ alerts = RuleBaseAlerts \o later
          /\ decisions = <<RuleDecision(1, "deliver", "root_pass", 0),
                           RuleDecision(2, "suppress", "edge", RuleInserted)>>
    /\ \E score \in RuleScores, meta \in RuleMetas :
          suppressed = <<[alert_id |-> 2, edge_id |-> <<"R-001", "R-002">>,
                          inserted_ts |-> RuleInserted, status |-> "pending",
                          false_suppression_score |-> score, meta |-> meta]>>
    /\ late_replay = NoRows
    /\ validation_logs \in RuleLogs
    /\ now \in RuleClocks
    /\ policy = DefaultPolicy
    /\ session = <<>>
    /\ last = NoCall
    /\ wk = [w \in Workers |-> IdleWorker]
    /\ rc = [r \in Reconcilers |-> IdleReconciler]
    /\ AuditIdle
    /\ thr = IdleThreads
    /\ ExtIdle

RulesNext ==
    \/ \E r \in Reconcilers : SweepBegin(r)
    \/ \E r \in Reconcilers : SweepItem(r)
    \/ \E r \in Reconcilers : SweepCommit(r)

SpecRules == RulesInit /\ [][RulesNext]_vars

\* the five conditions as the rules are stated, for suppression sup
RuleHolds(k, sup) ==
    LET own == {a \in DOMAIN alerts : alerts[a].id = sup.alert_id}
    IN  CASE k = 1 -> now - sup.inserted_ts >= TTL_SEC
          [] k = 2 -> /\ sup.false_suppression_score # NoScore
                      /\ sup.false_suppression_score[1] * 100
                            >= LATE_FALSE_THRESHOLD * sup.false_suppression_score[2]
          [] k = 3 -> edge_drifted(DriftMeta(sup))
          [] k = 4 -> \E i \in DOMAIN alerts : \E a \in own :
                         /\ alerts[i].entity_id = alerts[a].entity_id
                         /\ alerts[i].rule_id = alerts[a].rule_id
                         /\ alerts[i].severity \in {"high", "critical"}
                         /\ alerts[i].ts > sup.inserted_ts
          [] k = 5 -> \E i \in DOMAIN validation_logs :
                         /\ validation_logs[i].alert_id = sup.alert_id
                         /\ validation_logs[i].validation_ts > sup.inserted_ts
                         /\ validation_logs[i].score[1] * 10
                               > 7 * validation_logs[i].score[2]

RuleReason(k) ==
    <<"ttl_policy", "false_suppression", "edge_drift", "severity_escalation",
      "validation_update">>[k]

\* the confidences rule k may record for sup
RuleConfidences(k, sup) ==
    CASE k = 1 -> {Rat(7, 10)}
      [] k = 2 -> {sup.false_suppression_score}
      [] k = 3 -> {Rat(6, 10)}
      [] k = 4 -> {Rat(8, 10)}
      [] k = 5 -> {validation_logs[i].score : i \in
                     {j \in DOMAIN validation_logs :
                        /\ validation_logs[j].alert_id = sup.alert_id
                        /\ validation_logs[j].validation_ts > sup.inserted_ts
                        /\ validation_logs[j].score[1] * 10
                              > 7 * validation_logs[j].score[2]}}

FirstRule(sup) ==
    IF \E k \in 1..5 : RuleHolds(k, sup)
    THEN CHOOSE k \in 1..5 :
            RuleHolds(k, sup) /\ \A j \in 1..(k - 1) : ~RuleHolds(j, sup)
    ELSE 0

SweepRead(r) ==
    IF rc[r].pc = "running"
    THEN {rc[r].queue[i].alert_id : i \in DOMAIN rc[r].queue}
            \cup {m[1] : m \in rc[r].marks} \cup rc[r].fired
    ELSE {}

\* C13: only the holder of the lease processes suppressions, so no two
\* sweeps are at the same time between their query for pending suppressions
\* and their commit with a suppression that both have read.
C13_OneSweepAtATime ==
    \A r1, r2 \in Reconcilers :
        r1 # r2 => SweepRead(r1) \cap SweepRead(r2) = {}

-----------------------------------------------------------------------------
(* Transitive reduction (core/transitive_reduction.py)                     *)

MaxEdgeList == 4       \* edges in the list passed to transitive_reduction

TRNodes == {"A", "B", "C"}

TREdges == TRNodes \X TRNodes

\* the edge lists without a repeated edge, up to MaxEdgeList long
EdgeLists ==
    {es \in UNION {[1..n -> TREdges] : n \in 0..MaxEdgeList} :
        \A i, j \in DOMAIN es : i # j => es[i] # es[j]}

EdgeSet(es) == {es[i] : i \in DOMAIN es}

Contains(seq, x) == \E i \in DOMAIN seq : seq[i] = x

\* the keys of the dict adj in insertion order: adj[u].add(v) inserts u,
\* adj.setdefault(v, set()) inserts v
RECURSIVE DictKeys(_, _, _)
DictKeys(es, i, keys) ==
    IF i > Len(es) THEN keys
    ELSE LET u == es[i][1]
             v == es[i][2]
             k1 == IF Contains(keys, u) THEN keys ELSE Append(keys, u)
             k2 == IF Contains(k1, v) THEN k1 ELSE Append(k1, v)
         IN  DictKeys(es, i + 1, k2)

\* the nodes the search visits from the frontier
RECURSIVE Visit(_, _, _)
Visit(adj, frontier, visited) ==
    IF frontier \subseteq visited THEN visited
    ELSE LET seen == visited \cup frontier
             next == {e[2] : e \in {d \in adj : d[1] \in frontier}}
         IN  Visit(adj, next, seen)

\* _bfs_reachable(adj, src, dst)
bfs_reachable(adj, src, dst) ==
    \/ src = dst
    \/ \E u \in Visit(adj, {src}, {}) : <<u, dst>> \in adj

\* one turn of the inner loop: remove (u, v), restore it unless v is still
\* reachable from u
examine(adj, u, v) ==
    LET removed == adj \ {<<u, v>>}
    IN  IF bfs_reachable(removed, u, v) THEN removed ELSE adj

Successors(adj, u) == {e[2] : e \in {d \in adj : d[1] = u}}

\* transitive_reduction(edges) up to the first turn of the outer loop
TRBegin(edges) ==
    /\ tr.pc = "idle"
    /\ LET keys == DictKeys(edges, 1, <<>>)
           adj == EdgeSet(edges)
       IN  tr' = IF keys = <<>>
                 THEN [pc |-> "done", edges |-> edges, keys |-> keys, ui |-> 0,
                       todo |-> {}, adj |-> adj]
                 ELSE [pc |-> "loop", edges |-> edges, keys |-> keys, ui |-> 1,
                       todo |-> Successors(adj, keys[1]), adj |-> adj]

\* `for v in list(vs)`: vs is a set, so the next v is any of those left
TRExamine ==
    /\ tr.pc = "loop"
    /\ \E v \in tr.todo :
          tr' = [tr EXCEPT !.adj = examine(@, tr.keys[tr.ui], v),
                           !.todo = @ \ {v}]

\* `for u, vs in list(result_adj.items())`: the next key, or the end
TRNextKey ==
    /\ tr.pc = "loop"
    /\ tr.todo = {}
    /\ tr' = IF tr.ui < Len(tr.keys)
             THEN [tr EXCEPT !.ui = @ + 1,
                             !.todo = Successors(tr.adj, tr.keys[tr.ui + 1])]
             ELSE [tr EXCEPT !.pc = "done"]

TRInit == DbInit({DefaultPolicy}) /\ AuditIdle /\ thr = IdleThreads

TRNext ==
    \/ /\ tr.pc = "idle"
       /\ \E edges \in EdgeLists : TRBegin(edges)
       /\ UNCHANGED <<auditVars, dbVars, lg, rt, fn>>
    \/ TRExamine /\ UNCHANGED <<auditVars, dbVars, lg, rt, fn>>
    \/ TRNextKey /\ UNCHANGED <<auditVars, dbVars, lg, rt, fn>>

SpecTR == TRInit /\ [][TRNext]_vars

-----------------------------------------------------------------------------
(* Claims about transitive reduction *)

\* v can be reached from u along edges of E (every node reaches itself)
RECURSIVE Connected(_, _, _, _)
Connected(E, u, v, steps) ==
    \/ u = v
    \/ /\ steps > 0
       /\ \E e \in E : e[1] = u /\ Connected(E, e[2], v, steps - 1)

NodesOf(E) == {e[1] : e \in E} \cup {e[2] : e \in E}

Reaches(E, u, v) == Connected(E, u, v, Cardinality(NodesOf(E)))

NodeOrder == <<"A", "B", "C", "X", "Y", "Z">>

NodeRank(n) == CHOOSE i \in DOMAIN NodeOrder : NodeOrder[i] = n

EdgeBefore(e, f) ==
    \/ NodeRank(e[1]) < NodeRank(f[1])
    \/ e[1] = f[1] /\ NodeRank(e[2]) < NodeRank(f[2])

\* the reduction that examines the edges of E in lexicographic order
RECURSIVE ReduceLex(_, _)
ReduceLex(adj, left) ==
    IF left = {} THEN adj
    ELSE LET e == CHOOSE x \in left : \A y \in left \ {x} : EdgeBefore(x, y)
         IN  ReduceLex(examine(adj, e[1], e[2]), left \ {e})

\* C14: the result of transitive_reduction is a subset of the input with
\* the same reachability and without an edge whose removal leaves its head
\* reachable from its tail; {A->B, B->C, A->C} gives {A->B, B->C}; and the
\* result is the one obtained in lexicographic order, whatever the order in
\* which the edges were examined.
C14_TransitiveReduction ==
    tr.pc = "done" =>
        LET input == EdgeSet(tr.edges)
            output == tr.adj
        IN  /\ output \subseteq input
            /\ \A u, v \in NodesOf(input) :
                  Reaches(output, u, v) <=> Reaches(input, u, v)
            /\ \A e \in output : ~Reaches(output \ {e}, e[1], e[2])
            /\ input = {<<"A", "B">>, <<"B", "C">>, <<"A", "C">>}
                  => output = {<<"A", "B">>, <<"B", "C">>}
            /\ output = ReduceLex(input, input)

-----------------------------------------------------------------------------
(* Graph learning (core/binarization.py, core/implication.py, core/fdr.py, *)
(* core/pipeline.py).  Metric values and thresholds are hundredths.  A     *)
(* p-value is an exact rational where the binomial sum fits the integers;  *)
(* elsewhere it is 0.0 or a positive float no larger than a bound.         *)

\* metric_names = list(thresholds.keys())
Metrics == <<"X", "Y", "Z">>

\* events: a metric may be missing from an event's dict
E111 == [X |-> 100, Y |-> 100, Z |-> 100]
E011 == [X |-> 0, Y |-> 100, Z |-> 100]
E001 == [X |-> 0, Y |-> 0, Z |-> 100]
E000 == [X |-> 0, Y |-> 0, Z |-> 0]
E110 == [X |-> 100, Y |-> 100, Z |-> 0]
EH11 == [X |-> 50, Y |-> 100, Z |-> 100]
EN11 == [Y |-> 100, Z |-> 100]

Block(ev, n) == [ev |-> ev, n |-> n]

\* a batch is a list of blocks of equal events
RECURSIVE BatchSize(_)
BatchSize(batch) ==
    IF batch = <<>> THEN 0 ELSE Head(batch).n + BatchSize(Tail(batch))

\* the event with index k (from 0) of the batch
RECURSIVE EventAt(_, _)
EventAt(batch, k) ==
    IF k < Head(batch).n THEN Head(batch).ev
    ELSE EventAt(Tail(batch), k - Head(batch).n)

\* binarize_events with the band closed: a value on the edge of the band is
\* unknown as well
binarize_events_closed_band(batch, thresholds, margin_delta) ==
    LET n == BatchSize(batch)
        IsOne(k, metric) ==
            LET ev == EventAt(batch, k)
            IN  metric \in DOMAIN ev /\ ev[metric] >= thresholds[metric] + margin_delta
        IsUnknown(k, metric) ==
            LET ev == EventAt(batch, k)
            IN  \/ metric \notin DOMAIN ev
                \/ /\ ev[metric] <= thresholds[metric] + margin_delta
                   /\ ev[metric] >= thresholds[metric] - margin_delta
    IN  [values |-> [i \in DOMAIN Metrics |->
                        {k \in 0..(n - 1) : IsOne(k, Metrics[i])}],
         unknowns |-> [i \in DOMAIN Metrics |->
                        {k \in 0..(n - 1) : IsUnknown(k, Metrics[i])}]]

\* binarize_events: per metric the set of event indices whose bit is set in
\* the value bitset and in the unknown mask
binarize_events(batch, thresholds, margin_delta) ==
    LET n == BatchSize(batch)
        IsOne(k, metric) ==
            LET ev == EventAt(batch, k)
            IN  metric \in DOMAIN ev /\ ev[metric] >= thresholds[metric] + margin_delta
        IsUnknown(k, metric) ==
            LET ev == EventAt(batch, k)
            IN  \/ metric \notin DOMAIN ev
                \/ /\ ev[metric] < thresholds[metric] + margin_delta
                   /\ ev[metric] > thresholds[metric] - margin_delta
    IN  [values |-> [i \in DOMAIN Metrics |->
                        {k \in 0..(n - 1) : IsOne(k, Metrics[i])}],
         unknowns |-> [i \in DOMAIN Metrics |->
                        {k \in 0..(n - 1) : IsUnknown(k, Metrics[i])}]]

\* popcount(src_bits & ~dst_bits & ~dst_unknown)
compute_counterexamples(src_bits, dst_bits, dst_unknown) ==
    Cardinality((src_bits \ dst_bits) \ dst_unknown)

NaN == Rat(0, 0)
NoPValue == {}         \* p_value = None

\* rule_of_three_upper(n_src1) for n_src1 > 0
rule_of_three_upper(n_src1) == Rat(3, n_src1)

ExactCap == 4096       \* largest denominator of an exact p-value
Milli == 1000          \* denominator of a bound on a p-value
MaxGap == 30000        \* cap on the distance from the mean, scaled, in a bound

\* b^n, or some number over cap when b^n is over cap
RECURSIVE PowFrom(_, _, _, _)
PowFrom(acc, b, n, cap) ==
    IF n = 0 \/ acc > cap THEN acc ELSE PowFrom(acc * b, b, n - 1, cap)

PowCapped(b, n, cap) == PowFrom(1, b, n, cap)

RECURSIVE Binomial(_, _)
Binomial(n, r) ==
    IF r = 0 \/ r = n THEN 1 ELSE Binomial(n - 1, r - 1) + Binomial(n - 1, r)

RECURSIVE TailSum(_, _, _, _)
TailSum(r, n, a, b) ==
    IF r > n THEN 0
    ELSE Binomial(n, r) * PowCapped(a, r, ExactCap) * PowCapped(b - a, n - r, ExactCap)
            + TailSum(r + 1, n, a, b)

\* one_sided_binomial_pvalue(k, n, p0) for 0 < n < 2000 and p0 = a/b: the
\* floats it can return.  The sum 1 - CDF is exact in the model when b^n
\* fits; else the float is some value in [0, bound], written as 0.0 or the
\* bound (Cantelli's inequality, rounded up to a thousandth).
one_sided_binomial_pvalue(k, n, p0) ==
    LET a == p0[1]
        b == p0[2]
        gap == IF k * b - n * a > MaxGap THEN MaxGap ELSE k * b - n * a
        spread == n * a * (b - a)
        bound == (Milli * spread + spread + gap * gap - 1) \div (spread + gap * gap)
    IN  IF a <= 0 THEN {IF k <= 0 THEN One ELSE Zero}
        ELSE IF a >= b THEN {IF k <= n THEN One ELSE Zero}
        ELSE IF PowCapped(b, n, ExactCap) <= ExactCap
        THEN {Rat(TailSum(k, n, a, b), PowCapped(b, n, ExactCap))}
        ELSE IF gap > 0 THEN {Zero, Rat(bound, Milli)}
        ELSE {Zero, One}

\* the p-value is exact in the model
ExactPValue(n, p0) ==
    p0[1] <= 0 \/ p0[1] >= p0[2] \/ PowCapped(p0[2], n, ExactCap) <= ExactCap

\* compute_all_edges without the p-values: the ordered pairs (i, j), i # j,
\* of metrics with n_src1 > 0, in the order of the two loops
compute_all_edges(metric_names, values, unknowns) ==
    LET d == Len(metric_names)
        Stat(t) ==
            LET i == ((t - 1) \div d) + 1
                j == ((t - 1) % d) + 1
                k == compute_counterexamples(values[i], values[j], unknowns[j])
                src_n == Cardinality(values[i] \ unknowns[i])
            IN  [src |-> metric_names[i], dst |-> metric_names[j],
                 n_src1 |-> src_n, k_counterex |-> k,
                 ci95_upper |-> IF k = 0 /\ src_n > 0
                                THEN rule_of_three_upper(src_n) ELSE NaN]
        Kept(e) == e.src # e.dst /\ e.n_src1 > 0
    IN  SelectSeq([t \in 1..(d * d) |-> Stat(t)], Kept)

Falsy(p) == p[1] = 0

SameRat(x, y) == x[1] * y[2] = y[1] * x[2]

FloatBits == 3         \* bits of the significand of a float

RECURSIVE Pow2(_)
Pow2(k) == IF k = 0 THEN 1 ELSE 2 * Pow2(k - 1)

\* n / d rounded to an integer, ties to even
RoundHalfEven(n, d) ==
    LET q == n \div d
        r == n % d
    IN  IF 2 * r < d THEN q
        ELSE IF 2 * r > d THEN q + 1
        ELSE IF q % 2 = 0 THEN q ELSE q + 1

\* (n / d) * (up / down) rounded to a float of FloatBits bits
RECURSIVE RoundScaled(_, _, _, _)
RoundScaled(n, d, up, down) ==
    IF n >= d * Pow2(FloatBits) THEN RoundScaled(n, 2 * d, 2 * up, down)
    ELSE IF n < d * Pow2(FloatBits - 1) THEN RoundScaled(2 * n, d, up, 2 * down)
    ELSE Rat(RoundHalfEven(n, d) * up, down)

\* the float nearest to x >= 0: the result of one float operation whose
\* exact value is x
RoundFloat(x) == IF x[1] = 0 THEN Zero ELSE RoundScaled(x[1], x[2], 1, 1)

\* arithmetic without rounding
RoundExact(x) == x

\* the rank of ps[i] in sorted(enumerate(ps), key=p), from 1: the sort is
\* stable
BHRank(ps, i) ==
    1 + Cardinality({j \in DOMAIN ps :
                        \/ Less(ps[j], ps[i])
                        \/ SameRat(ps[j], ps[i]) /\ j < i})

LeastRat(S) == CHOOSE x \in S : \A y \in S : ~Less(y, x)

\* bh_qvalues(p_values) with every float operation rounded by fl: stable
\* sort by p, q = (p * m) / rank, reverse cumulative minimum starting from
\* 1.0, back in the original order
bh_rounded(ps, fl(_)) ==
    LET m == Len(ps)
        product(i) == fl(Rat(ps[i][1] * m, ps[i][2]))
        raw(i) == fl(Rat(product(i)[1], product(i)[2] * BHRank(ps, i)))
    IN  [i \in DOMAIN ps |->
            LeastRat({One} \cup {raw(j) : j \in {h \in DOMAIN ps :
                                                   BHRank(ps, h) >= BHRank(ps, i)}})]

\* bh_qvalues without the reverse cumulative minimum
bh_qvalues_raw(ps) ==
    LET m == Len(ps)
        product(i) == RoundFloat(Rat(ps[i][1] * m, ps[i][2]))
        raw(i) == RoundFloat(Rat(product(i)[1], product(i)[2] * BHRank(ps, i)))
    IN  [i \in DOMAIN ps |-> LeastRat({One, raw(i)})]

\* bh_qvalues(p_values) in floating point
bh_qvalues(ps) == bh_rounded(ps, RoundFloat)

\* the p-values the edges of raw_edges[i..] can get: NoPValue when k = 0
RECURSIVE PVectors(_, _, _)
PVectors(raw_edges, i, epsilon) ==
    IF i > Len(raw_edges) THEN {<<>>}
    ELSE LET e == raw_edges[i]
             here == IF e.k_counterex = 0 THEN {NoPValue}
                     ELSE one_sided_binomial_pvalue(e.k_counterex, e.n_src1, epsilon)
         IN  {<<p>> \o rest : p \in here, rest \in PVectors(raw_edges, i + 1, epsilon)}

\* the q-value of every edge that has a p-value (q_map), computed without
\* rounding, from the floats
\* `raw_edges[i].p_value or 1.0`; floor = TRUE takes, for a p-value known
\* only by its bound, 0 in place of the bound
QMap(raw_edges, pvs, epsilon, floor) ==
    LET IsTested(i) == raw_edges[i].k_counterex # 0
        p_indices == SelectSeq([i \in DOMAIN raw_edges |-> i], IsTested)
        p_of(i) ==
            IF Falsy(pvs[i]) THEN One
            ELSE IF floor /\ ~ExactPValue(raw_edges[i].n_src1, epsilon) THEN Zero
            ELSE pvs[i]
        q_values == bh_rounded([t \in DOMAIN p_indices |-> p_of(p_indices[t])],
                               RoundExact)
    IN  [i \in DOMAIN raw_edges |->
            IF IsTested(i)
            THEN q_values[CHOOSE t \in DOMAIN p_indices : p_indices[t] = i]
            ELSE NoPValue]

\* the acceptance test of learn_graph_from_events for edge i
Accepts(raw_edges, q_map, i, fdr_q, epsilon) ==
    IF raw_edges[i].k_counterex = 0
    THEN ~Less(epsilon, raw_edges[i].ci95_upper)
    ELSE ~Less(fdr_q, q_map[i])

\* the bounds on the p-values settle every comparison q <= fdr_q
Settled(raw_edges, q_map, q_floor, fdr_q, epsilon) ==
    \A i \in DOMAIN raw_edges :
        Accepts(raw_edges, q_map, i, fdr_q, epsilon)
           <=> Accepts(raw_edges, q_floor, i, fdr_q, epsilon)

\* learn_graph_from_events up to the call of transitive_reduction
LearnCall(input) ==
    /\ lg.pc = "idle"
    /\ tr.pc = "idle"
    /\ \E bits \in {binarize_events(input.batch, input.thresholds, input.margin_delta)} :
       \E raw_edges \in {compute_all_edges(Metrics, bits.values, bits.unknowns)} :
       \E pvs \in PVectors(raw_edges, 1, input.epsilon) :
       \E q_map \in {QMap(raw_edges, pvs, input.epsilon, FALSE)} :
       \E q_floor \in {QMap(raw_edges, pvs, input.epsilon, TRUE)} :
          LET IsAccepted(i) == Accepts(raw_edges, q_map, i, input.fdr_q, input.epsilon)
              chosen == SelectSeq([i \in DOMAIN raw_edges |-> i], IsAccepted)
              accepted_pairs == [t \in DOMAIN chosen |->
                                    <<raw_edges[chosen[t]].src, raw_edges[chosen[t]].dst>>]
          IN  /\ Settled(raw_edges, q_map, q_floor, input.fdr_q, input.epsilon)
              /\ lg' = [pc |-> "reducing", input |-> input,
                        raw_edges |-> raw_edges, accepted_pairs |-> accepted_pairs]
              /\ TRBegin(accepted_pairs)
    /\ UNCHANGED <<auditVars, dbVars, rt, fn>>

\* the edges of a set as a list (the order of the list is not modelled)
RECURSIVE ListOf(_)
ListOf(E) ==
    IF E = {} THEN <<>>
    ELSE LET e == CHOOSE x \in E : \A y \in E \ {x} : EdgeBefore(x, y)
         IN  <<e>> \o ListOf(E \ {e})

\* the rest of learn_graph_from_events, after transitive_reduction returned
LearnReturn ==
    /\ lg.pc = "reducing"
    /\ tr.pc = "done"
    /\ LET reduced_pairs == ListOf(tr.adj)
           detail(pair) ==
               LET i == CHOOSE h \in DOMAIN lg.raw_edges :
                           <<lg.raw_edges[h].src, lg.raw_edges[h].dst>> = pair
               IN  [src |-> pair[1], dst |-> pair[2],
                    n_src1 |-> lg.raw_edges[i].n_src1,
                    k_counterex |-> lg.raw_edges[i].k_counterex]
       IN  lg' = [pc |-> "returned", input |-> lg.input,
                  raw_edges |-> lg.raw_edges, accepted_pairs |-> lg.accepted_pairs,
                  nodes |-> NodesOf(tr.adj),
                  edges |-> [t \in DOMAIN reduced_pairs |-> detail(reduced_pairs[t])]]
    /\ UNCHANGED <<auditVars, dbVars, tr, rt, fn>>

MaxBlock == 6          \* events in a block of a small batch

SmallCounts == {0, MaxBlock \div 2, MaxBlock}

SmallPatterns == <<E111, E011, E001, E000, E110, EH11, EN11>>

MaxKinds == 2          \* different events in a small batch

SmallBatches ==
    {[i \in DOMAIN SmallPatterns |-> Block(SmallPatterns[i], c[i])] :
        c \in {f \in [DOMAIN SmallPatterns -> SmallCounts] :
                 Cardinality({i \in DOMAIN f : f[i] # 0}) <= MaxKinds}}

Thresholds == [X |-> 50, Y |-> 50, Z |-> 50]

LearnInput(batch, margin_delta, fdr_q, epsilon) ==
    [batch |-> batch, thresholds |-> Thresholds, margin_delta |-> margin_delta,
     fdr_q |-> fdr_q, epsilon |-> epsilon]

\* 150 (1,1,1), 100 (0,1,1), 50 (0,0,1), 100 (0,0,0); delta 0, q 0.01,
\* epsilon 0.02
ChainBatch == <<Block(E111, 150), Block(E011, 100), Block(E001, 50), Block(E000, 100)>>

ChainInput == LearnInput(ChainBatch, 0, Rat(1, 100), Rat(1, 50))

\* a batch of three kinds of events for which only X->Y, X->Z and Y->Z
\* pass the tests
SmallChainInput ==
    LearnInput(<<Block(E111, MaxBlock), Block(E011, MaxBlock \div 2),
                 Block(E001, MaxBlock \div 2)>>, 0, Rat(1, 5), Rat(1, 2))

LearnInputs ==
    {LearnInput(batch, margin_delta, fdr_q, epsilon) :
        batch \in SmallBatches, margin_delta \in {0, 25},
        fdr_q \in {Rat(1, 100), Rat(1, 5)}, epsilon \in {Rat(1, 2), One}}
    \cup {ChainInput, SmallChainInput}

LearnInit == DbInit({DefaultPolicy}) /\ AuditIdle /\ thr = IdleThreads

LearnNext ==
    \/ /\ lg.pc = "idle"
       /\ \E input \in LearnInputs : LearnCall(input)
    \/ lg.pc = "reducing" /\ TRExamine /\ UNCHANGED <<auditVars, dbVars, lg, rt, fn>>
    \/ lg.pc = "reducing" /\ TRNextKey /\ UNCHANGED <<auditVars, dbVars, lg, rt, fn>>
    \/ LearnReturn

SpecLearn == LearnInit /\ [][LearnNext]_vars

-----------------------------------------------------------------------------
(* Claims about graph learning *)

GraphEdges(g) == {<<g.edges[t].src, g.edges[t].dst>> : t \in DOMAIN g.edges}

\* C15: the graph learn_graph_from_events returns has no cycle, no
\* self-loop and no two edges with the same source and destination.
C15_LearnedGraphIsDag ==
    lg.pc = "returned" =>
        /\ \A e \in GraphEdges(lg) : e[1] # e[2]
        /\ \A e \in GraphEdges(lg) : ~Reaches(GraphEdges(lg), e[2], e[1])
        /\ \A s, t \in DOMAIN lg.edges :
              s # t => <<lg.edges[s].src, lg.edges[s].dst>>
                          # <<lg.edges[t].src, lg.edges[t].dst>>

\* C16: for the chain batch the accepted pairs include X->Z and none of
\* Y->X, Z->Y, Z->X, and the edges of the returned graph are exactly X->Y
\* and Y->Z.
C16_ChainLearned ==
    (lg.pc = "returned" /\ lg.input = ChainInput) =>
        /\ GraphEdges(lg) = {<<"X", "Y">>, <<"Y", "Z">>}
        /\ Contains(lg.accepted_pairs, <<"X", "Z">>)
        /\ ~Contains(lg.accepted_pairs, <<"Y", "X">>)
        /\ ~Contains(lg.accepted_pairs, <<"Z", "Y">>)
        /\ ~Contains(lg.accepted_pairs, <<"Z", "X">>)

-----------------------------------------------------------------------------
(* Retention (retention/policy.py)                                         *)

Today == 400           \* the day of the run, in days

\* modification days of the files: older than every period, newer than all
MTimes == {0, Today - 1}

\* the files that may lie in the storage tree
FileNames == [audit |-> {"a.jsonl", "b.jsonl"}, metrics |-> {"m.json"}, tmp |-> {"t"}]

File(dir, name, mtime) == [dir |-> dir, name |-> name, mtime |-> mtime]

\* retention_policies of a config file: data type -> policy_config
Configs ==
    {[c \in {} |-> 0],
     [metrics |-> [retention_days |-> UNLIMITED]],
     [metrics |-> [retention_days |-> DAYS_90, archive_before_delete |-> TRUE]],
     [audit_logs |-> [retention_days |-> DAYS_365, enabled |-> FALSE]],
     [temporary |-> [retention_days |-> DAYS_7, compliance_hold |-> TRUE]]}

\* policy_config.get(key, default)
ConfigGet(policy_config, key, default) ==
    IF key \in DOMAIN policy_config THEN policy_config[key] ELSE default

\* _load_config: every data type of the config replaces the default policy
load_config(policies, config) ==
    [c \in DOMAIN policies |->
        IF c \in DOMAIN config
        THEN RetentionPolicy(ConfigGet(config[c], "retention_days", DAYS_90),
                             ConfigGet(config[c], "enabled", TRUE),
                             ConfigGet(config[c], "archive_before_delete", FALSE),
                             ConfigGet(config[c], "compliance_hold", FALSE))
        ELSE policies[c]]

\* RetentionManager(config_file, database_url, storage_path) on the tree
RetentionManager(config) ==
    /\ rt' = [rt EXCEPT !.policies = load_config(StandardPolicies, config),
                        !.result = NoReport]
    /\ UNCHANGED <<auditVars, dbVars, tr, lg, fn>>

\* the application writes a file under storage_path (or rewrites it)
StoreFile(dir, name, mtime) ==
    /\ rt' = [rt EXCEPT !.live = {f \in rt.live : ~(f.dir = dir /\ f.name = name)}
                                    \cup {File(dir, name, mtime)},
                        !.result = NoReport]
    /\ UNCHANGED <<auditVars, dbVars, tr, lg, fn>>

\* set_compliance_hold(data_type, enabled)
set_compliance_hold(data_type, enabled) ==
    /\ rt' = [rt EXCEPT !.policies[data_type].compliance_hold = enabled,
                        !.result = NoReport]
    /\ UNCHANGED <<auditVars, dbVars, tr, lg, fn>>

\* the files of dir with mtime < cutoff_date
ExpiredFiles(live, dir, cutoff_date) ==
    {f \in live : f.dir = dir /\ f.mtime < cutoff_date}

\* the loop of _clean_audit_logs, _clean_metrics, _clean_reports and
\* _clean_temporary_files over the directory, cutoff_date being naive: the
\* trees and the count when it ends, and the exception that ended it.
\* _archive_file renames the file into the archive tree, so the unlink()
\* that follows it raises FileNotFoundError at the first expired file glob()
\* yields; which file that is depends on the directory order.
clean_files(live, archived, dir, cutoff_date, dry_run, archive) ==
    LET expired == ExpiredFiles(live, dir, cutoff_date)
    IN  IF dry_run \/ expired = {}
        THEN {[live |-> live, archived |-> archived,
               count |-> Cardinality(expired), raised |-> ""]}
        ELSE IF ~archive
        THEN {[live |-> live \ expired, archived |-> archived,
               count |-> Cardinality(expired), raised |-> ""]}
        ELSE {[live |-> live \ {f}, archived |-> archived \cup {f},
               count |-> 1, raised |-> "FileNotFoundError"] : f \in expired}

\* a direct call of the cleaner of data_type with a naive cutoff_date;
\* _clean_temporary_files has no archive parameter
CleanCall(data_type, cutoff_date, dry_run, archive) ==
    /\ data_type = "temporary" => ~archive
    /\ \E out \in clean_files(rt.live, rt.archived, ClassDir[data_type],
                              cutoff_date, dry_run, archive) :
          rt' = [rt EXCEPT !.live = out.live, !.archived = out.archived,
                           !.result = Report("clean", dry_run, out.raised,
                                             [c \in {data_type} |-> out.count])]
    /\ UNCHANGED <<auditVars, dbVars, tr, lg, fn>>

\* apply_retention_policies(dry_run): building the results dict evaluates
\* datetime.now(datetime.UTC), datetime being the class: AttributeError,
\* raised before the loop over the policies and outside its try
apply_retention_policies(dry_run) ==
    /\ rt' = [rt EXCEPT !.result = Report("apply", dry_run, "AttributeError", NoCounts)]
    /\ UNCHANGED <<auditVars, dbVars, tr, lg, fn>>

RetInit == DbInit({DefaultPolicy}) /\ AuditIdle /\ thr = IdleThreads

RetNext ==
    \/ \E config \in Configs : RetentionManager(config)
    \/ \E dir \in DOMAIN FileNames :
          \E name \in FileNames[dir] :
             \E mtime \in MTimes : StoreFile(dir, name, mtime)
    \/ \E data_type \in FileClasses :
          \E enabled \in BOOLEAN : set_compliance_hold(data_type, enabled)
    \/ \E data_type \in FileClasses :
          \E days \in {DAYS_7, DAYS_90, DAYS_365} :
             \E dry_run, archive \in BOOLEAN :
                CleanCall(data_type, Today - days, dry_run, archive)
    \/ \E dry_run \in BOOLEAN : apply_retention_policies(dry_run)

SpecRetention == RetInit /\ [][RetNext]_vars

-----------------------------------------------------------------------------
(* Claims about the failure semantics of the decision engine *)

\* no Suppressed row was added by the last call
NoNewSuppressed == Len(suppressed) = last.sup_before

\* a call on an empty graph never suppresses
EmptyGraphNeverSuppresses ==
    (last.called /\ last.empty_graph /\ ~last.raised) =>
        last.ret.decision = "deliver" /\ NoNewSuppressed

\* C17: a call of decide_and_record whose context has no edge and no
\* in-degree returns a deliver decision with the reason no_graph and adds
\* no Suppressed row.
C17_EmptyGraphDelivers ==
    (last.called /\ last.empty_graph /\ ~last.raised) =>
        /\ last.ret = [decision |-> "deliver", why |-> "no_graph"]
        /\ NoNewSuppressed

\* C18: a call of decide_and_record during which the validator or the
\* store fails does not raise, adds no Suppressed row and returns a deliver
\* decision with the reason validator_unavailable.
C18_FailOpen ==
    (last.called /\ last.fault # "none") =>
        /\ ~last.raised
        /\ last.ret = [decision |-> "deliver", why |-> "validator_unavailable"]
        /\ NoNewSuppressed

-----------------------------------------------------------------------------
(* Claims about retention *)

\* the policy of the class lets apply_retention_policies clean it
Eligible(pol) ==
    pol.enabled /\ ~pol.compliance_hold /\ pol.retention_days # UNLIMITED

\* the files of the class older than its retention period
Overdue(live, policies, c) ==
    ExpiredFiles(live, ClassDir[c], Today - policies[c].retention_days)

FilesOf(live, c) == {f \in live : f.dir = ClassDir[c]}

\* the step is a call of apply_retention_policies with this dry_run on a
\* tree that holds an overdue file of a class the run may clean
ApplyStep(dry_run) ==
    /\ rt' # rt
    /\ rt'.result.op = "apply"
    /\ rt'.result.dry_run = dry_run
    /\ \E c \in FileClasses :
          Eligible(rt.policies[c]) /\ Overdue(rt.live, rt.policies, c) # {}

\* C19: a dry run of apply_retention_policies changes no file and returns,
\* for every class it may clean, the number of files a real run would
\* delete; a run of either kind leaves the files of a class that is on hold,
\* disabled or UNLIMITED as they are.
C19_RetentionFrame ==
    [][/\ ApplyStep(TRUE) =>
            /\ rt'.live = rt.live /\ rt'.archived = rt.archived
            /\ rt'.result.raised = ""
            /\ \A c \in FileClasses :
                  Eligible(rt.policies[c]) =>
                      /\ c \in DOMAIN rt'.result.deleted
                      /\ rt'.result.deleted[c]
                             = Cardinality(Overdue(rt.live, rt.policies, c))
       /\ (ApplyStep(TRUE) \/ ApplyStep(FALSE)) =>
            \A c \in FileClasses :
                ~Eligible(rt.policies[c]) => FilesOf(rt'.live, c) = FilesOf(rt.live, c)
      ]_vars

\* C20: after a real run of apply_retention_policies no file older than the
\* retention period is left in the live tree of a class the run may clean,
\* each such file of a class with archive_before_delete is in the archive
\* tree, and the run raised nothing.
C20_RetentionComplete ==
    [][ApplyStep(FALSE) =>
          /\ rt'.result.raised = ""
          /\ \A c \in FileClasses :
                Eligible(rt.policies[c]) =>
                    /\ Overdue(rt'.live, rt.policies, c) = {}
                    /\ rt.policies[c].archive_before_delete =>
                           Overdue(rt.live, rt.policies, c) \subseteq rt'.archived
      ]_vars

\* a direct call of a cleaner with archive set moves one expired file to the
\* archive tree and raises, whatever the number of expired files
ArchivingCleanerStopsAtFirstFile ==
    [][(rt' # rt /\ rt'.result.op = "clean" /\ rt'.result.raised # "") =>
          /\ Cardinality(rt.live \ rt'.live) = 1
          /\ rt'.archived = rt.archived \cup (rt.live \ rt'.live)
      ]_vars

\* the reason with which a LateReplay was added or stored
ReplayReasons ==
    {late_replay[l].reason : l \in DOMAIN late_replay}
    \cup UNION {{rc[r].adds[k].reason : k \in DOMAIN rc[r].adds} : r \in Reconcilers}

\* C30: every Suppressed row has false_suppression_score <=
\* FALSE_SUPPRESSION_THRESHOLD, and, the engine's threshold being below the
\* reconciler's, the rule false_suppression fires for no Suppressed row: not
\* when should_late_replay is evaluated now, and for no LateReplay added.
C30_SuppressedBelowThreshold ==
    /\ \A s \in DOMAIN suppressed :
          ~Less(Rat(FALSE_SUPPRESSION_THRESHOLD, 100),
                suppressed[s].false_suppression_score)
    /\ FALSE_SUPPRESSION_THRESHOLD < LATE_FALSE_THRESHOLD =>
          /\ \A s \in DOMAIN suppressed :
                should_late_replay(suppressed[s], alerts, validation_logs,
                                   now).reason # "false_suppression"
          /\ "false_suppression" \notin ReplayReasons

\* a sweep has looked at the first Suppressed row, whose score is positive
\* and which is younger than the TTL, has fired no rule for it and is left
\* with the second row
C30_Witness ==
    /\ Len(suppressed) = 2
    /\ suppressed[1].status = "pending"
    /\ suppressed[1].false_suppression_score[1] > 0
    /\ now - suppressed[1].inserted_ts < TTL_SEC
    /\ \E r \in Reconcilers :
          /\ rc[r].pc = "running"
          /\ rc[r].queue = <<suppressed[2]>>
          /\ rc[r].fired = {}

-----------------------------------------------------------------------------
(* Sweeps repeated for ever (run_continuous) while the alerts table is     *)
(* not the reconciler's own: rows of it are deleted by others              *)

\* DELETE FROM alerts ...: an Alert row is gone; the rows of the other
\* tables that name it stay (no cascade).  After a deletion no alert is
\* posted any more, so that ids are not handed out twice.
DeleteAlertRow(i) ==
    /\ fn.op = "none"
    /\ i \in DOMAIN alerts
    /\ alerts' = RemoveAt(alerts, i)
    /\ fn' = [op |-> "delete_alert", id |-> alerts[i].id]
    /\ UNCHANGED <<decisions, suppressed, late_replay, validation_logs, now,
                   policy, session, last, wk, rc, auditVars, tr, lg, rt>>

\* one step of run_once in process r
Sweep(r) == SweepBegin(r) \/ SweepItem(r) \/ SweepCommit(r)

ReconcilerNext ==
    \/ /\ fn.op = "none"
       /\ \E alert_data \in AlertData({now}, {"h1"}, Rules, {"medium", "high"}, {""}) :
              ingest_alert(alert_data)
    \/ Tick
    \/ \E r \in Reconcilers : Sweep(r)

QuarantineNext == ReconcilerNext \/ \E i \in DOMAIN alerts : DeleteAlertRow(i)

\* `while True: run_once(); time.sleep(interval_seconds)`: every process
\* goes on sweeping, and the clock goes on
SweepFairness == WF_vars(Tick) /\ \A r \in Reconcilers : WF_vars(Sweep(r))

SpecQuarantine == ReconInit /\ [][QuarantineNext]_vars /\ SweepFairness

\* the same without deletions
SpecSweeping == ReconInit /\ [][ReconcilerNext]_vars /\ SweepFairness

\* the last moment the model's clock reaches
LastTimePoint == CHOOSE t \in TimePoints : \A u \in TimePoints : u <= t

\* alert k has a pending Suppressed row that the clock can take past the TTL
PendingFor(k) ==
    \E s \in DOMAIN suppressed :
        /\ suppressed[s].alert_id = k
        /\ suppressed[s].status = "pending"
        /\ suppressed[s].inserted_ts + TTL_SEC <= LastTimePoint

\* alert k has no pending Suppressed row
TerminalFor(k) ==
    \A s \in DOMAIN suppressed :
        suppressed[s].alert_id = k
           => suppressed[s].status \in {"late", "expired", "validated"}

\* C29: with sweeps repeated and time advancing, every pending suppression
\* eventually has a terminal status (late, expired or validated), also when
\* its Alert row has been deleted.
C29_QuarantineLiveness == \A k \in 1..MaxAlerts : PendingFor(k) ~> TerminalFor(k)

-----------------------------------------------------------------------------
(* The records of one alert: ingest, decision, suppression, late replay    *)

\* how far ahead of the server's clock the ts of a posted alert may be
ClockSkew == 30

\* requests whose ts is the sender's clock, sweeps and the passing of time
LifecycleNext ==
    \/ ReconNext
    \/ \E alert_data \in AlertData({now + ClockSkew}, {"h1"}, Rules,
                                    {"medium", "high"}, {""}) :
           ingest_alert(alert_data)

SpecLifecycle == ReconInit /\ [][LifecycleNext]_vars

\* every LateReplay has a Suppressed row, every Suppressed row a decision
\* record that says suppress, every decision record an Alert row
RecordsChained ==
    /\ \A l \in DOMAIN late_replay :
          \E s \in DOMAIN suppressed :
              suppressed[s].alert_id = late_replay[l].alert_id
    /\ \A s \in DOMAIN suppressed :
          \E d \in DOMAIN decisions :
              /\ decisions[d].alert_id = suppressed[s].alert_id
              /\ decisions[d].decision = "suppress"
    /\ \A d \in DOMAIN decisions :
          \E a \in DOMAIN alerts : alerts[a].id = decisions[d].alert_id

\* decisions.created_at <= suppressed.inserted_ts <= late_replay.late_ts
LaterStampsOrdered ==
    /\ \A d \in DOMAIN decisions : \A s \in DOMAIN suppressed :
          decisions[d].alert_id = suppressed[s].alert_id
             => decisions[d].created_at <= suppressed[s].inserted_ts
    /\ \A s \in DOMAIN suppressed : \A l \in DOMAIN late_replay :
          suppressed[s].alert_id = late_replay[l].alert_id
             => suppressed[s].inserted_ts <= late_replay[l].late_ts

\* alerts.ts, the only time an Alert row carries, <= decisions.created_at
IngestStampFirst ==
    \A a \in DOMAIN alerts : \A d \in DOMAIN decisions :
        alerts[a].id = decisions[d].alert_id
           => alerts[a].ts <= decisions[d].created_at

-----------------------------------------------------------------------------
(* Rule generation (rules/generate.py)                                     *)

\* e.get("segment") is None
NoSegment == ""

EdgeSegment(e) == IF "segment" \in DOMAIN e THEN e.segment ELSE NoSegment

\* seg or "__all__"
SegmentKey(seg) == IF seg = NoSegment THEN "__all__" ELSE seg

\* the keys of by_seg in insertion order
RECURSIVE SegmentKeys(_)
SegmentKeys(edges) ==
    IF edges = <<>> THEN <<>>
    ELSE LET front == SegmentKeys(SubSeq(edges, 1, Len(edges) - 1))
             key == SegmentKey(EdgeSegment(edges[Len(edges)]))
         IN  IF Contains(front, key) THEN front ELSE Append(front, key)

\* by_seg[seg]: the (src, dst) of the edges of the segment, in list order
SegmentPairs(edges, seg) ==
    LET InSegment(e) == SegmentKey(EdgeSegment(e)) = seg
        chosen == SelectSeq(edges, InSegment)
    IN  [t \in DOMAIN chosen |-> <<chosen[t].src, chosen[t].dst>>]

\* the rule dict appended for a, b, c in segment seg
SuppressionRule(a, b, c, seg) ==
    [name |-> "bolcd_suppress_" \o a \o "_" \o c \o "_" \o seg,
     segment |-> seg,
     spl |-> "search " \o a \o "=* " \o c \o "=* | eval suppressed='via " \o b \o "'",
     kql |-> a \o ":* and " \o c \o ":* | project suppressed='via " \o b \o "'",
     detector |-> [rule |-> "suppress", via |-> b, src |-> a, dst |-> c,
                   segment |-> seg]]

\* the two loops over the pairs ev of one segment
SegmentRules(ev, seg) ==
    LET n == Len(ev)
        pairs == {ev[t] : t \in DOMAIN ev}
        First(t) == ev[((t - 1) \div n) + 1]
        Second(t) == ev[((t - 1) % n) + 1]
        Hit(t) == /\ Second(t)[1] = First(t)[2]
                  /\ <<First(t)[1], Second(t)[2]>> \in pairs
                  /\ First(t)[1] # Second(t)[2]
        hits == SelectSeq([t \in 1..(n * n) |-> t], Hit)
    IN  [h \in DOMAIN hits |->
            SuppressionRule(First(hits[h])[1], First(hits[h])[2],
                            Second(hits[h])[2], seg)]

RECURSIVE RulesOfSegments(_, _)
RulesOfSegments(edges, keys) ==
    IF keys = <<>> THEN <<>>
    ELSE SegmentRules(SegmentPairs(edges, Head(keys)), Head(keys))
            \o RulesOfSegments(edges, Tail(keys))

\* build_suppression_rules(graph)
build_suppression_rules(graph) ==
    RulesOfSegments(graph.edges, SegmentKeys(graph.edges))

\* the graphs build_suppression_rules is called on directly: for each of
\* five edges, absent, without a segment, or in one of two segments
RuleEdges == <<<<"A", "B">>, <<"B", "C">>, <<"A", "B2">>, <<"B2", "C">>, <<"A", "C">>>>

RuleSegments == {NoSegment, "s1", "s2"}

RuleGraphs ==
    {[edges |-> LET Present(t) == seg[t] # "absent"
                    kept == SelectSeq([t \in DOMAIN RuleEdges |-> t], Present)
                IN  [h \in DOMAIN kept |->
                        [src |-> RuleEdges[kept[h]][1], dst |-> RuleEdges[kept[h]][2],
                         segment |-> seg[kept[h]]]]] :
        seg \in [DOMAIN RuleEdges -> RuleSegments \cup {"absent"}]}

\* build_suppression_rules(graph), called once
RuleGenCall(graph) ==
    /\ fn.op = "none"
    /\ \E rules \in {build_suppression_rules(graph)} :
          fn' = [op |-> "build_suppression_rules", graph |-> graph, rules |-> rules]
    /\ UNCHANGED <<auditVars, dbVars, tr, lg, rt>>

RuleCallsNext == fn.op = "none" /\ \E graph \in RuleGraphs : RuleGenCall(graph)

SpecRuleCalls == LearnInit /\ [][RuleCallsNext]_vars

\* build_suppression_rules on the graph learn_graph_from_events returned
BuildRules ==
    /\ lg.pc = "returned"
    /\ \E rules \in {build_suppression_rules([edges |-> lg.edges])} :
          lg' = [pc |-> "rules", input |-> lg.input, raw_edges |-> lg.raw_edges,
                 accepted_pairs |-> lg.accepted_pairs, nodes |-> lg.nodes,
                 edges |-> lg.edges, rules |-> rules]
    /\ UNCHANGED <<auditVars, dbVars, tr, rt, fn>>

RuleGenNext == LearnNext \/ BuildRules

SpecRuleGen == LearnInit /\ [][RuleGenNext]_vars

-----------------------------------------------------------------------------
(* Claims about rule generation *)

\* the (src, via, dst, segment) of the rules of a list
RuleTriples(rules) ==
    {[src |-> rules[t].detector.src, via |-> rules[t].detector.via,
      dst |-> rules[t].detector.dst, segment |-> rules[t].segment] :
        t \in DOMAIN rules}

\* C21: the rules derived from a learned graph are those with src = A,
\* dst = C, via = B for which A->B and B->C are edges of the graph and A->C
\* was accepted before the transitive reduction.
C21_RulesOfLearnedGraph ==
    lg.pc = "rules" =>
        RuleTriples(lg.rules) =
            {[src |-> a, via |-> b, dst |-> c, segment |-> "__all__"] :
                <<a, b, c>> \in
                    {t \in NodesOf(GraphEdges(lg)) \X NodesOf(GraphEdges(lg))
                                \X NodesOf(GraphEdges(lg)) :
                        /\ <<t[1], t[2]>> \in GraphEdges(lg)
                        /\ <<t[2], t[3]>> \in GraphEdges(lg)
                        /\ Contains(lg.accepted_pairs, <<t[1], t[3]>>)
                        /\ t[1] # t[3]}}

\* C28: two rules of the returned list that have the same name are the
\* same rule.
C28_RulesIdempotentByName ==
    fn.op = "build_suppression_rules" =>
        \A s, t \in DOMAIN fn.rules :
            fn.rules[s].name = fn.rules[t].name => fn.rules[s] = fn.rules[t]

-----------------------------------------------------------------------------
(* Binarization (core/binarization.py)                                     *)

MaxRepeat == 2         \* equal events in a row in a batch to binarize

\* values of X on, beside and between the edges of the band around the
\* threshold for the margins below
BinValues == {0, 25, 49, 50, 51, 75, 100}

BinEvents == {[X |-> x, Y |-> 100, Z |-> 0] : x \in BinValues} \cup {EN11}

BinMargins == {0, 1, 25, 50}

BinBatches ==
    {<<Block(e1, n), Block(e2, 1)>> : e1 \in BinEvents, e2 \in BinEvents, n \in 1..MaxRepeat}

\* binarize_events(events, thresholds, margin_delta)
BinarizeCall(batch, margin_delta) ==
    /\ \E bits \in {binarize_events(batch, Thresholds, margin_delta)} :
          fn' = [op |-> "binarize_events", events |-> batch,
                 margin_delta |-> margin_delta,
                 values |-> bits.values, unknowns |-> bits.unknowns]
    /\ UNCHANGED <<auditVars, dbVars, tr, lg, rt>>

BinInit == DbInit({DefaultPolicy}) /\ AuditIdle /\ thr = IdleThreads

BinNext ==
    \E batch \in BinBatches : \E margin_delta \in BinMargins :
        BinarizeCall(batch, margin_delta)

SpecBinarize == BinInit /\ [][BinNext]_vars

-----------------------------------------------------------------------------
(* Claims about binarization *)

\* the outcome of event k for metric i in the result of the last call:
\* "one", "zero" or "unknown" when the bits and the value agree on it, and
\* "none" when they agree on no outcome or on more than one
BinOutcome(i, k) ==
    LET ev == EventAt(fn.events, k)
        metric == Metrics[i]
        a == Thresholds[metric]
        d == fn.margin_delta
        set == k \in fn.values[i]
        unknown == k \in fn.unknowns[i]
        one == set /\ ~unknown /\ metric \in DOMAIN ev /\ ev[metric] >= a + d
        zero == ~set /\ ~unknown /\ metric \in DOMAIN ev /\ ev[metric] <= a - d
        bottom == unknown /\ ~set
                    /\ (metric \notin DOMAIN ev
                          \/ (ev[metric] > a - d /\ ev[metric] < a + d))
    IN  IF one /\ ~zero /\ ~bottom THEN "one"
        ELSE IF zero /\ ~one /\ ~bottom THEN "zero"
        ELSE IF bottom /\ ~one /\ ~zero THEN "unknown"
        ELSE "none"

UnknownCount(f) == Cardinality({<<i, k>> \in (DOMAIN f.unknowns) \X (0..(BatchSize(f.events) - 1)) :
                                    k \in f.unknowns[i]})

\* C22: in the result of binarize_events every event has, for every metric,
\* exactly one outcome (bit set, bit clear and known, unknown), no bit is
\* set in both the values and the unknown mask, and a call on the same
\* events with a margin at least as large has at least as many unknown bits.
C22_BinarizerTrichotomy ==
    /\ [](fn.op = "binarize_events" =>
            /\ \A i \in DOMAIN Metrics : \A k \in 0..(BatchSize(fn.events) - 1) :
                   BinOutcome(i, k) # "none"
            /\ \A i \in DOMAIN Metrics : fn.values[i] \cap fn.unknowns[i] = {})
    /\ [][(/\ fn.op = "binarize_events" /\ fn'.op = "binarize_events"
           /\ fn'.events = fn.events
           /\ fn'.margin_delta >= fn.margin_delta)
             => UnknownCount(fn') >= UnknownCount(fn)]_vars

\* a call with a positive margin that produced the three outcomes, one of
\* them for a value on the edge of the band
C22_Witness ==
    /\ fn.op = "binarize_events"
    /\ fn.margin_delta = 25
    /\ EventAt(fn.events, 0) = [X |-> 75, Y |-> 100, Z |-> 0]
    /\ {BinOutcome(1, k) : k \in 0..(BatchSize(fn.events) - 1)} = {"one", "unknown"}
    /\ \E k \in 0..(BatchSize(fn.events) - 1) : BinOutcome(3, k) = "zero"

-----------------------------------------------------------------------------
(* Benjamini-Hochberg q-values (core/fdr.py)                               *)

MaxPs == 3             \* p-values in a list

\* p-values: floats in [0, 1]
PValues == {Rat(k, 8) : k \in 0..8}

PLists == UNION {[1..n -> PValues] : n \in 1..MaxPs}

\* bh_qvalues(p_values), called once
BHCall(ps) ==
    /\ fn.op = "none"
    /\ \E qs \in {bh_qvalues(ps)} : fn' = [op |-> "bh_qvalues", ps |-> ps, qs |-> qs]
    /\ UNCHANGED <<auditVars, dbVars, tr, lg, rt>>

BHInit == DbInit({DefaultPolicy}) /\ AuditIdle /\ thr = IdleThreads

BHNext == fn.op = "none" /\ \E ps \in PLists : BHCall(ps)

SpecBH == BHInit /\ [][BHNext]_vars

-----------------------------------------------------------------------------
(* Claims about the q-values *)

LessEq(x, y) == ~Less(y, x)

\* the list has the length of the input, every q lies in [0, 1] and the q
\* are non-decreasing in the rank of p
BHShape ==
    /\ DOMAIN fn.qs = DOMAIN fn.ps
    /\ \A i \in DOMAIN fn.qs : LessEq(Zero, fn.qs[i]) /\ LessEq(fn.qs[i], One)
    /\ \A i, j \in DOMAIN fn.ps : LessEq(fn.ps[i], fn.ps[j]) => LessEq(fn.qs[i], fn.qs[j])

\* every q is the least of 1 and of the p * m / rank of the ranks from its
\* own upwards, the quotients taken as step(p, m, rank) gives them; for the
\* largest p that is min(1, step(p, m, m))
BHRunningMinimum(step(_, _, _)) ==
    LET m == Len(fn.ps)
    IN  /\ \A i \in DOMAIN fn.ps :
              /\ \A j \in DOMAIN fn.ps :
                    BHRank(fn.ps, j) >= BHRank(fn.ps, i)
                        => LessEq(fn.qs[i], step(fn.ps[j], m, BHRank(fn.ps, j)))
              /\ \/ SameRat(fn.qs[i], One)
                 \/ \E j \in DOMAIN fn.ps :
                       /\ BHRank(fn.ps, j) >= BHRank(fn.ps, i)
                       /\ SameRat(fn.qs[i], step(fn.ps[j], m, BHRank(fn.ps, j)))
        /\ \A i \in DOMAIN fn.ps :
              BHRank(fn.ps, i) = m
                  => SameRat(fn.qs[i], LeastRat({One, step(fn.ps[i], m, m)}))

\* p * m / rank as a real number
RealStep(p, m, rank) == Rat(p[1] * m, p[2] * rank)

\* (p * m) / rank as two float operations
FloatStep(p, m, rank) ==
    LET product == RoundFloat(Rat(p[1] * m, p[2]))
    IN  RoundFloat(Rat(product[1], product[2] * rank))

=============================================================================
